---- MODULE Spec2Model ----
(***************************************************************************)
(* Quote engine of the DEX aggregator: the pool store, the trading graph   *)
(* that RefreshGraph rebuilds and publishes through an atomic pointer, the *)
(* constant-product price calculator with its slippage guard, the          *)
(* best-first path search of FindBestPaths and the router that evaluates   *)
(* the candidate paths under a semaphore and selects the best one.         *)
(*                                                                         *)
(* Amounts and reserves are exact integers as in the code (math/big); the  *)
(* pool catalog uses small amounts so that every product stays inside the  *)
(* checker's integer range.  The price impact, which the code evaluates in *)
(* big.Float, is compared exactly as a rational number.                    *)
(***************************************************************************)
EXTENDS Integers, Sequences, FiniteSets, TLC

\* ------------------------------------------------------------------------
\* Bounds of the model
\* ------------------------------------------------------------------------
MaxCatalog == 4           \* pools held by the store of a single-quote run
MaxConcurrentPaths == 2   \* configured semaphore width (perfConfig.MaxConcurrentPaths)
MaxStorePools == 1        \* StorePool calls after start-up
MaxRefreshes == 1         \* RefreshGraph calls after start-up
MaxQuotes == 1            \* quotes issued one after the other
MaxParallel == 2          \* goroutines of a concurrent caller, one quote after the other each
MaxCandidates == 3        \* candidates handed to one concurrent evaluation
MaxPathsAsked == 2        \* maxPaths of a direct call of FindBestPaths
MaxCalcHops == 2          \* pools in a list handed to CalculatePathOutput
MaxCacheOps == 3          \* TwoLevelCache calls issued by the clients together
MaxLiveCalls == 2         \* the same, in the runs checked for progress
MaxStoreCalls == 3        \* direct StorePool calls on one MemoryStore
MaxOverlapping == 2       \* RefreshGraph calls after start-up in the runs where they overlap
MaxTicks == 2             \* ticks of the background refresher in the runs checked for progress

\* ------------------------------------------------------------------------
\* Program constants
\* ------------------------------------------------------------------------
FeeNumerator == 997
FeeDenominator == 1000
DefaultMaxSlippage == 5
DefaultMaxHops == 3
FinderMaxHops == 3
SmallMaxPaths == 20
LargeMaxPaths == 10
OneEther == 1             \* 10^18 base units; amounts are counted in that unit
BaseGas == 21000
UniswapGas == 100000
SushiswapGas == 120000
DefaultPoolGas == 110000

\* ------------------------------------------------------------------------
\* State
\* ------------------------------------------------------------------------
VARIABLES
  sys,          \* "init" (constructor running), "running", "fatal"
  storePools,   \* MemoryStore.pools: address -> pool record
  tokenPairs,   \* MemoryStore.tokenPairs: token -> token -> pool addresses
  snaps,        \* graphData objects allocated so far
  snapSrc,      \* per object, the set of pools GetAllPools returned for it
  graph,        \* PathFinder.graph: index into snaps, 0 = nil
  published,    \* objects ever stored into PathFinder.graph
  rf,           \* RefreshGraph calls: the constructor's, the ticker's, an explicit one
  nStore, nRefresh, nQuote,
  qpc,          \* position of the quote in GetBestQuote
  req,          \* the QuoteRequest (MaxHops defaulted in place)
  maxPaths,
  g,            \* snapshot loaded by FindBestPaths, 0 before the load
  gAtIssue,     \* PathFinder.graph when the quote was issued
  pq, bestAmountPerToken, bestPaths,
  found,        \* what FindBestPaths returned
  workers, sem, resultsChan, errorChan,
  response,
  cancelled,    \* the request context is done
  calc,         \* a direct call of the price calculator: arguments and result
  localCache,   \* TwoLevelCache.localCache: the MemoryStore's pools and index
  redisCache,   \* the Redis server: dex:pool:<address>, dex:token_pair:*, dex:all_pools,
                \* dex:token:<address>
  stats,        \* TwoLevelCache.stats
  calls,        \* per client, the TwoLevelCache call in progress and its result
  backfill,     \* goroutines started by GetPool that have not yet run
  nCacheOps,
  nGetPool,     \* GetPool calls issued since the cache was constructed
  warming,      \* warmLocalCache goroutines: the pools each has still to store
  storeCall,    \* a direct call of the MemoryStore: arguments and result
  storeLog,     \* the pools handed to MemoryStore.StorePool, in call order
  parked,       \* per goroutine of a concurrent caller, its quote while it is not scheduled
  running,      \* the goroutine whose quote the quote variables hold, 0 = a single caller
  overlapped,   \* two quotes of a concurrent caller have been in flight together
  maxConcurrent \* Router.maxConcurrent: the capacity NewRouter took from the configuration

storeVars == <<storePools, tokenPairs, nStore>>
graphVars == <<snaps, snapSrc, graph, published, rf, nRefresh, sys>>
searchVars == <<g, pq, bestAmountPerToken, bestPaths, found>>
evalVars == <<workers, sem, resultsChan, errorChan>>
quoteVars == <<qpc, req, maxPaths, gAtIssue, nQuote, response, cancelled>>
cacheVars == <<localCache, redisCache, stats, calls, backfill, nCacheOps, nGetPool, warming>>
directVars == <<storeCall, storeLog, parked, running, overlapped>>
routerVars == <<maxConcurrent>>
unitVars == <<calc, cacheVars, directVars, routerVars>>
vars == <<storeVars, graphVars, searchVars, evalVars, quoteVars, unitVars>>

\* ------------------------------------------------------------------------
\* Strings: strings.ToLower on the addresses and exchange names in use
\* ------------------------------------------------------------------------
ToLower(s) ==
  CASE s = "A" -> "a"
    [] s = "B" -> "b"
    [] s = "C" -> "c"
    [] s = "D" -> "d"
    [] s = "Uniswap V2" -> "uniswap v2"
    [] s = "SushiSwap" -> "sushiswap"
    [] s = "PancakeSwap" -> "pancakeswap"
    [] OTHER -> s

\* ------------------------------------------------------------------------
\* Pool records (types.Pool) and the catalog the store is filled from
\* ------------------------------------------------------------------------
\* a *big.Int that is nil
NilReserve == -999999

Pool(addr, ex, t0, t1, r0, r1) ==
  [address |-> addr, exchange |-> ex, token0 |-> t0, token1 |-> t1,
   reserve0 |-> r0, reserve1 |-> r1]

PoolCatalog ==
  { Pool("p1", "Uniswap V2",  "a", "b", 5000, 5000),
    Pool("p2", "SushiSwap",   "a", "b", 3000, 3000),
    Pool("p3", "Uniswap V2",  "b", "c", 2400, 2400),
    Pool("p4", "SushiSwap",   "a", "c", 5000, 2500),
    Pool("p5", "Uniswap V2",  "a", "c", 100, 200),
    Pool("p6", "Uniswap V2",  "a", "c", 5300, 5300),
    Pool("p7", "PancakeSwap", "c", "a", 5300, 5300),
    Pool("p8", "SushiSwap",   "b", "c", 2500, 5000),
    Pool("p9", "PancakeSwap", "a", "c", 1200, 1200) }


\* ------------------------------------------------------------------------
\* Price calculator
\* ------------------------------------------------------------------------
CalcResult(amt, e) == [amount |-> amt, err |-> e]

\* variant: the fee is not taken off the input
calculateOutputWithFee_nofee(reserveIn, reserveOut, amountIn) ==
  LET numerator == reserveOut * amountIn
      denominator == reserveIn + amountIn
  IN  IF denominator = 0 THEN 0 ELSE numerator \div denominator

calculateOutputWithFee(reserveIn, reserveOut, amountIn) ==
  LET amountInWithFee == amountIn * FeeNumerator
      numerator == reserveOut * amountInWithFee
      denominator == reserveIn * FeeDenominator + amountInWithFee
  IN  IF denominator = 0 THEN 0 ELSE numerator \div denominator

\* slippagePercent > maxSlippage, with
\*   slippagePercent = 100 * (spot - effective) / spot,
\*   spot = reserveOut / reserveIn, effective = amountOut / amountIn
\* cleared of its (positive) denominators.
SlippageTooHigh(reserveIn, reserveOut, amountIn, amountOut, maxSlippage) ==
  100 * (amountIn * reserveOut - amountOut * reserveIn)
     > maxSlippage * amountIn * reserveOut

checkSlippageWithLimit(reserveIn, reserveOut, amountIn, maxSlippage) ==
  IF amountIn = 0 THEN "none"
  ELSE IF reserveIn = 0 THEN "zero_reserve_in"
  ELSE IF reserveOut = 0 THEN "zero_spot_price"
  ELSE IF SlippageTooHigh(reserveIn, reserveOut, amountIn,
                          calculateOutputWithFee(reserveIn, reserveOut, amountIn),
                          maxSlippage)
       THEN "slippage"
  ELSE "none"

checkSlippage(reserveIn, reserveOut, amountIn) ==
  checkSlippageWithLimit(reserveIn, reserveOut, amountIn, DefaultMaxSlippage)

\* variant: the input side is always reserve0
CalculateOutput_byPosition(pool, amountIn, tokenIn) ==
  LET poolToken0 == ToLower(pool.token0)
      poolToken1 == ToLower(pool.token1)
      tokenInLower == ToLower(tokenIn)
      known == poolToken0 = tokenInLower \/ poolToken1 = tokenInLower
      reserveIn == pool.reserve0
      reserveOut == pool.reserve1
  IN  IF ~known THEN CalcResult(0, "unknown_token")
      ELSE IF reserveIn = 0 \/ reserveOut = 0 THEN CalcResult(0, "none")
      ELSE IF checkSlippage(reserveIn, reserveOut, amountIn) # "none"
           THEN CalcResult(0, checkSlippage(reserveIn, reserveOut, amountIn))
      ELSE CalcResult(calculateOutputWithFee(reserveIn, reserveOut, amountIn), "none")

\* variant: an input that fails the slippage check yields 0 without an error
CalculateOutput_silentCutoff(pool, amountIn, tokenIn) ==
  LET poolToken0 == ToLower(pool.token0)
      poolToken1 == ToLower(pool.token1)
      tokenInLower == ToLower(tokenIn)
      known == poolToken0 = tokenInLower \/ poolToken1 = tokenInLower
      reserveIn == IF poolToken0 = tokenInLower THEN pool.reserve0 ELSE pool.reserve1
      reserveOut == IF poolToken0 = tokenInLower THEN pool.reserve1 ELSE pool.reserve0
  IN  IF ~known THEN CalcResult(0, "unknown_token")
      ELSE IF reserveIn = 0 \/ reserveOut = 0 THEN CalcResult(0, "none")
      ELSE IF checkSlippage(reserveIn, reserveOut, amountIn) # "none"
           THEN CalcResult(0, "none")
      ELSE CalcResult(calculateOutputWithFee(reserveIn, reserveOut, amountIn), "none")

CalculateOutput(pool, amountIn, tokenIn) ==
  LET poolToken0 == ToLower(pool.token0)
      poolToken1 == ToLower(pool.token1)
      tokenInLower == ToLower(tokenIn)
      known == poolToken0 = tokenInLower \/ poolToken1 = tokenInLower
      reserveIn == IF poolToken0 = tokenInLower THEN pool.reserve0 ELSE pool.reserve1
      reserveOut == IF poolToken0 = tokenInLower THEN pool.reserve1 ELSE pool.reserve0
  IN  IF ~known THEN CalcResult(0, "unknown_token")
      ELSE IF reserveIn = 0 \/ reserveOut = 0 THEN CalcResult(0, "none")
      ELSE IF checkSlippage(reserveIn, reserveOut, amountIn) # "none"
           THEN CalcResult(0, checkSlippage(reserveIn, reserveOut, amountIn))
      ELSE CalcResult(calculateOutputWithFee(reserveIn, reserveOut, amountIn), "none")

\* variant: the token reached after the last hop is not compared
RECURSIVE PathOutputFrom_unchecked(_, _, _, _, _)
PathOutputFrom_unchecked(pools, i, currentAmount, currentToken, tokenOutLower) ==
  IF i > Len(pools) THEN CalcResult(currentAmount, "none")
  ELSE
    LET pool == pools[i]
        hop == CalculateOutput(pool, currentAmount, currentToken)
        poolToken0Lower == ToLower(pool.token0)
        poolToken1Lower == ToLower(pool.token1)
        inputTokenLower == ToLower(currentToken)
        nextToken == IF poolToken0Lower = inputTokenLower THEN poolToken1Lower
                     ELSE poolToken0Lower
    IN  IF hop.err # "none" THEN CalcResult(0, hop.err)
        ELSE IF poolToken0Lower # inputTokenLower /\ poolToken1Lower # inputTokenLower
             THEN CalcResult(0, "unknown_token")
        ELSE PathOutputFrom_unchecked(pools, i + 1, hop.amount, nextToken, tokenOutLower)

\* variant: the output of a hop is not carried into the next hop
RECURSIVE PathOutputFrom_amountKept(_, _, _, _, _)
PathOutputFrom_amountKept(pools, i, currentAmount, currentToken, tokenOutLower) ==
  IF i > Len(pools) THEN CalcResult(currentAmount, "none")
  ELSE
    LET pool == pools[i]
        hop == CalculateOutput(pool, currentAmount, currentToken)
        poolToken0Lower == ToLower(pool.token0)
        poolToken1Lower == ToLower(pool.token1)
        inputTokenLower == ToLower(currentToken)
        nextToken == IF poolToken0Lower = inputTokenLower THEN poolToken1Lower
                     ELSE poolToken0Lower
    IN  IF hop.err # "none" THEN CalcResult(0, hop.err)
        ELSE IF poolToken0Lower # inputTokenLower /\ poolToken1Lower # inputTokenLower
             THEN CalcResult(0, "unknown_token")
        ELSE IF i = Len(pools) /\ nextToken # tokenOutLower
             THEN CalcResult(0, "path_mismatch")
        ELSE IF i = Len(pools) THEN CalcResult(hop.amount, "none")
        ELSE PathOutputFrom_amountKept(pools, i + 1, currentAmount, nextToken, tokenOutLower)

RECURSIVE PathOutputFrom(_, _, _, _, _)
PathOutputFrom(pools, i, currentAmount, currentToken, tokenOutLower) ==
  IF i > Len(pools) THEN CalcResult(currentAmount, "none")
  ELSE
    LET pool == pools[i]
        hop == CalculateOutput(pool, currentAmount, currentToken)
        poolToken0Lower == ToLower(pool.token0)
        poolToken1Lower == ToLower(pool.token1)
        inputTokenLower == ToLower(currentToken)
        nextToken == IF poolToken0Lower = inputTokenLower THEN poolToken1Lower
                     ELSE poolToken0Lower
    IN  IF hop.err # "none" THEN CalcResult(0, hop.err)
        ELSE IF poolToken0Lower # inputTokenLower /\ poolToken1Lower # inputTokenLower
             THEN CalcResult(0, "unknown_token")
        ELSE IF i = Len(pools) /\ nextToken # tokenOutLower
             THEN CalcResult(0, "path_mismatch")
        ELSE PathOutputFrom(pools, i + 1, hop.amount, nextToken, tokenOutLower)

CalculatePathOutput(pools, amountIn, tokenIn, tokenOut) ==
  IF Len(pools) = 0 THEN CalcResult(0, "none")
  ELSE PathOutputFrom(pools, 1, amountIn, ToLower(tokenIn), ToLower(tokenOut))

\* ------------------------------------------------------------------------
\* Full-width operands (big.Int): a natural number is the sequence of its
\* base-10000 digits, lowest first, without leading zeros; zero is << >>
\* ------------------------------------------------------------------------
BZero == << >>
BOne == <<1>>

MaxOf(a, b) == IF a > b THEN a ELSE b

SetMax(S) == CHOOSE m \in S : \A k \in S : k <= m

BTrim(x) == SubSeq(x, 1, SetMax({0} \cup { i \in 1..Len(x) : x[i] # 0 }))

RECURSIVE BFromInt(_)
BFromInt(n) == IF n = 0 THEN << >> ELSE <<n % 10000>> \o BFromInt(n \div 10000)

\* from the decimal notation cut into groups of four digits, highest first
BFromGroups(gs) == BTrim([i \in 1..Len(gs) |-> gs[Len(gs) + 1 - i]])

Limb(x, i) == IF i <= Len(x) THEN x[i] ELSE 0

\* the digits in which x and y differ
BDiffer(x, y) == { i \in 1..MaxOf(Len(x), Len(y)) : Limb(x, i) # Limb(y, i) }

BCmpAt(x, y, D) ==
  IF D = {} THEN 0
  ELSE IF Limb(x, SetMax(D)) < Limb(y, SetMax(D)) THEN -1
  ELSE 1

\* big.Int.Cmp
BCmp(x, y) == BCmpAt(x, y, BDiffer(x, y))

\* a carry reaches digit i: a lower digit produces one and every digit in
\* between passes it on
BCarry(x, y, i) ==
  \E j \in 1..(i - 1) :
     /\ Limb(x, j) + Limb(y, j) >= 10000
     /\ \A k \in (j + 1)..(i - 1) : Limb(x, k) + Limb(y, k) = 9999

\* big.Int.Add
BAdd(x, y) ==
  BTrim([i \in 1..(MaxOf(Len(x), Len(y)) + 1) |->
           (Limb(x, i) + Limb(y, i) + (IF BCarry(x, y, i) THEN 1 ELSE 0)) % 10000])

BBorrow(x, y, i) ==
  \E j \in 1..(i - 1) :
     /\ Limb(x, j) < Limb(y, j)
     /\ \A k \in (j + 1)..(i - 1) : Limb(x, k) = Limb(y, k)

\* big.Int.Sub for x >= y
BSub(x, y) ==
  BTrim([i \in 1..Len(x) |->
           (10000 + x[i] - Limb(y, i) - (IF BBorrow(x, y, i) THEN 1 ELSE 0)) % 10000])

\* x times a single digit d: the low halves of the digit products plus the
\* high halves one place up
BMulSmall(x, d) ==
  BAdd([i \in 1..Len(x) |-> (x[i] * d) % 10000],
       [i \in 1..(Len(x) + 1) |-> IF i = 1 THEN 0 ELSE (x[i - 1] * d) \div 10000])

BShiftLimbs(x, k) == IF Len(x) = 0 THEN << >> ELSE [i \in 1..k |-> 0] \o x

RECURSIVE BMulFrom(_, _, _, _)
BMulFrom(x, y, j, sum) ==
  IF j > Len(y) \/ Len(sum) < 0 THEN sum
  ELSE BMulFrom(x, y, j + 1, BAdd(sum, BShiftLimbs(BMulSmall(x, y[j]), j - 1)))

\* big.Int.Mul
BMul(x, y) == BMulFrom(x, y, 1, BZero)

\* the largest digit q with y * q <= r, for r < y * 10000
RECURSIVE BDigit(_, _, _, _)
BDigit(r, y, lo, hi) ==
  IF lo = hi THEN lo
  ELSE IF BCmp(BMulSmall(y, (lo + hi + 1) \div 2), r) <= 0
       THEN BDigit(r, y, (lo + hi + 1) \div 2, hi)
       ELSE BDigit(r, y, lo, (lo + hi + 1) \div 2 - 1)

\* long division, from the highest digit of x down: q holds the digits of
\* the quotient found so far, r the remainder they leave
RECURSIVE BDivFrom(_, _, _, _, _)
BDivSub(x, y, i, q, r1, d) ==
  BDivFrom(x, y, i - 1, <<d>> \o q, BSub(r1, BMulSmall(y, d)))

BDivFrom(x, y, i, q, r) ==
  IF i = 0 \/ Len(q) < 0 \/ Len(r) < 0 THEN [q |-> BTrim(q), r |-> r]
  ELSE BDivSub(x, y, i, q, BTrim(<<x[i]>> \o r),
               BDigit(BTrim(<<x[i]>> \o r), y, 0, 9999))

\* big.Int.Div and its remainder, for y > 0
BDivMod(x, y) == BDivFrom(x, y, Len(x), << >>, << >>)

Times8192(x) == IF Len(x) = 0 THEN BZero ELSE BMulSmall(x, 8192)

RECURSIVE BPow2(_)
BPow2(k) == IF k >= 13 THEN Times8192(BPow2(k - 13)) ELSE <<2 ^ k>>

\* the least e with x < 2^e, from an e below it on; p is 2^e
RECURSIVE BBitLenFrom(_, _, _)
BBitLenFrom(x, e, p) ==
  IF BCmp(x, p) < 0 THEN e ELSE BBitLenFrom(x, e + 1, BAdd(p, p))

\* big.Int.BitLen
BBitLen(x) ==
  IF Len(x) = 0 THEN 0
  ELSE BBitLenFrom(x, 13 * (Len(x) - 1), BPow2(13 * (Len(x) - 1)))

\* ------------------------------------------------------------------------
\* big.Float and float64 arithmetic of the slippage check: a value is the
\* exact fraction n / d it stands for; every operation rounds its exact
\* result to the precision of the result, to nearest, ties to even
\* ------------------------------------------------------------------------
\* the mantissa m scaled by 2^k
RoundResult(m, k) ==
  IF k >= 0 THEN [n |-> BMul(m, BPow2(k)), d |-> BOne]
  ELSE [n |-> m, d |-> BPow2(0 - k)]

\* cut.q with the bits cut off rounded away: c compares them with one half
\* of the last place kept, sticky says that the division left a remainder
RoundMantissa(cut, c, sticky) ==
  IF \/ c > 0
     \/ c = 0 /\ sticky
     \/ c = 0 /\ ~sticky /\ cut.q[1] % 2 = 1
  THEN BAdd(cut.q, BOne)
  ELSE cut.q

RoundCut(cut, half, sticky, k) ==
  RoundResult(RoundMantissa(cut, BCmp(cut.r, half), sticky), k)

\* qr.q holds prec + t bits of n * 2^s / d, t of them are cut off
RoundBits(qr, t, s) ==
  RoundCut(BDivMod(qr.q, BPow2(t)), BPow2(t - 1), Len(qr.r) > 0, t - s)

RoundQuotient(qr, prec, s) == RoundBits(qr, BBitLen(qr.q) - prec, s)

\* s is such that n * 2^s / d has prec + 1 or prec + 2 bits
RoundScaled(n, d, prec, s) ==
  RoundQuotient(BDivMod(IF s >= 0 THEN BMul(n, BPow2(s)) ELSE n,
                        IF s >= 0 THEN d ELSE BMul(d, BPow2(0 - s))),
                prec, s)

\* n / d rounded to prec significant bits (n >= 0, d > 0)
RoundRat(n, d, prec) ==
  IF Len(n) = 0 \/ Len(d) = 0 THEN [n |-> BZero, d |-> BOne]
  ELSE RoundScaled(n, d, prec, prec + 1 + BBitLen(d) - BBitLen(n))

\* the precision SetInt gives a big.Float: the larger of BitLen and 64
IntPrec(x) == MaxOf(BBitLen(x), 64)

\* the precision of Quo and Sub: the larger of the operands' precisions
QuoPrec(x, y) == MaxOf(IntPrec(x), IntPrec(y))

\* new(big.Float).Quo of two integers converted by SetInt
QuoInts(x, y) == RoundRat(x, y, QuoPrec(x, y))

\* new(big.Float).Sub(x, y), for x >= y
FloatSub(x, y, prec) ==
  RoundRat(BSub(BMul(x.n, y.d), BMul(y.n, x.d)), BMul(x.d, y.d), prec)

\* new(big.Float).Quo(x, y)
FloatQuo(x, y, prec) == RoundRat(BMul(x.n, y.d), BMul(x.d, y.n), prec)

\* big.Float.Float64: the nearest float64 (53 bits)
Float64(x) == RoundRat(x.n, x.d, 53)

\* x * 100 in float64
Float64Percent(x) == RoundRat(BMul(x.n, BFromInt(100)), x.d, 53)

\* calculateOutputWithFee on full-width operands
QuotientOrZero(numerator, denominator) ==
  IF Len(denominator) = 0 THEN BZero ELSE BDivMod(numerator, denominator).q

calculateOutputWithFeeWide(reserveIn, reserveOut, amountIn) ==
  QuotientOrZero(BMul(reserveOut, BMul(amountIn, BFromInt(FeeNumerator))),
                 BAdd(BMul(reserveIn, BFromInt(FeeDenominator)),
                      BMul(amountIn, BFromInt(FeeNumerator))))

\* slippagePercent of checkSlippageWithLimit from the two prices
SlippagePercentOf(spotPrice, effectivePrice, prec) ==
  Float64Percent(Float64(FloatQuo(FloatSub(spotPrice, effectivePrice, prec),
                                  spotPrice, prec)))

SlippagePercent(reserveIn, reserveOut, amountIn, amountOut) ==
  SlippagePercentOf(QuoInts(reserveOut, reserveIn), QuoInts(amountOut, amountIn),
                    MaxOf(QuoPrec(reserveOut, reserveIn), QuoPrec(amountOut, amountIn)))

\* slippagePercent > maxSlippage
PercentExceeds(slippagePercent, maxSlippage) ==
  BCmp(slippagePercent.n, BMul(slippagePercent.d, BFromInt(maxSlippage))) > 0

\* slippagePercent > maxSlippage as checkSlippageWithLimit computes it:
\* spot and effective price, their difference and its quotient by the spot
\* price in big.Float, the quotient converted to float64 and multiplied by
\* 100 in float64
SlippagePercentExceeds(reserveIn, reserveOut, amountIn, maxSlippage) ==
  PercentExceeds(SlippagePercent(reserveIn, reserveOut, amountIn,
                                 calculateOutputWithFeeWide(reserveIn, reserveOut, amountIn)),
                 maxSlippage)

\* checkSlippageWithLimit on full-width operands
checkSlippageWithLimitWide(reserveIn, reserveOut, amountIn, maxSlippage) ==
  IF Len(amountIn) = 0 THEN "none"
  ELSE IF Len(reserveIn) = 0 THEN "zero_reserve_in"
  ELSE IF Len(reserveOut) = 0 THEN "zero_spot_price"
  ELSE IF SlippagePercentExceeds(reserveIn, reserveOut, amountIn, maxSlippage)
       THEN "slippage"
  ELSE "none"

\* ------------------------------------------------------------------------
\* Trading graph (graphData) and the loop body of RefreshGraph
\* ------------------------------------------------------------------------
Range(f) == { f[x] : x \in DOMAIN f }

MapPut(m, k, v) == [x \in (DOMAIN m) \cup {k} |-> IF x = k THEN v ELSE m[x]]

EmptyMap == [x \in {} |-> 0]

EmptyGraph == [adj |-> EmptyMap, poolMap |-> EmptyMap, liquidityMap |-> EmptyMap]

\* m[k], or a fresh inner map when the key is absent (the `== nil` branches)
Inner(m, k) == IF k \in DOMAIN m THEN m[k] ELSE EmptyMap
InnerSet(m, k) == IF k \in DOMAIN m THEN m[k] ELSE {}
EdgeList(m, a, b) ==
  IF a \in DOMAIN m /\ b \in DOMAIN m[a] THEN m[a][b] ELSE << >>

\* variant: the liquidity of a later pool of an edge is added in one
\* direction only
AddPoolToGraph_oneWay(gd, pool) ==
  LET t0 == ToLower(pool.token0)
      t1 == ToLower(pool.token1)
      adjA == MapPut(gd.adj, t0, InnerSet(gd.adj, t0))
      adjB == MapPut(adjA, t1, InnerSet(adjA, t1))
      adjC == MapPut(adjB, t0, adjB[t0] \cup {t1})
      adjD == MapPut(adjC, t1, adjC[t1] \cup {t0})
      pmA == MapPut(gd.poolMap, t0, Inner(gd.poolMap, t0))
      pmB == MapPut(pmA, t1, Inner(pmA, t1))
      pmC == MapPut(pmB, t0, MapPut(pmB[t0], t1, Append(EdgeList(pmB, t0, t1), pool)))
      pmD == MapPut(pmC, t1, MapPut(pmC[t1], t0, Append(EdgeList(pmC, t1, t0), pool)))
      poolLiquidity == pool.reserve0 * pool.reserve1
      lmA == MapPut(gd.liquidityMap, t0, Inner(gd.liquidityMap, t0))
      lmB == MapPut(lmA, t1, Inner(lmA, t1))
      exists == t1 \in DOMAIN lmB[t0]
      newLiq == IF exists THEN lmB[t0][t1] + poolLiquidity ELSE poolLiquidity
      lmC == MapPut(lmB, t0, MapPut(lmB[t0], t1, newLiq))
      lmD == IF exists THEN lmC ELSE MapPut(lmC, t1, MapPut(lmC[t1], t0, newLiq))
  IN  [adj |-> adjD, poolMap |-> pmD, liquidityMap |-> lmD]

AddPoolToGraph(gd, pool) ==
  LET t0 == ToLower(pool.token0)
      t1 == ToLower(pool.token1)
      \* adj[t0][t1] = true ; adj[t1][t0] = true
      adjA == MapPut(gd.adj, t0, InnerSet(gd.adj, t0))
      adjB == MapPut(adjA, t1, InnerSet(adjA, t1))
      adjC == MapPut(adjB, t0, adjB[t0] \cup {t1})
      adjD == MapPut(adjC, t1, adjC[t1] \cup {t0})
      \* poolMap[t0][t1] = append(...) ; poolMap[t1][t0] = append(...)
      pmA == MapPut(gd.poolMap, t0, Inner(gd.poolMap, t0))
      pmB == MapPut(pmA, t1, Inner(pmA, t1))
      pmC == MapPut(pmB, t0, MapPut(pmB[t0], t1, Append(EdgeList(pmB, t0, t1), pool)))
      pmD == MapPut(pmC, t1, MapPut(pmC[t1], t0, Append(EdgeList(pmC, t1, t0), pool)))
      \* liquidityMap
      poolLiquidity == pool.reserve0 * pool.reserve1
      lmA == MapPut(gd.liquidityMap, t0, Inner(gd.liquidityMap, t0))
      lmB == MapPut(lmA, t1, Inner(lmA, t1))
      exists == t1 \in DOMAIN lmB[t0]
      newLiq == IF exists THEN lmB[t0][t1] + poolLiquidity ELSE poolLiquidity
      lmC == MapPut(lmB, t0, MapPut(lmB[t0], t1, newLiq))
      lmD == MapPut(lmC, t1, MapPut(lmC[t1], t0, newLiq))
  IN  [adj |-> adjD, poolMap |-> pmD, liquidityMap |-> lmD]

RECURSIVE BuildFrom(_, _, _)
BuildFrom(gd, allPools, i) ==
  IF i > Len(allPools) THEN gd
  ELSE BuildFrom(AddPoolToGraph(gd, allPools[i]), allPools, i + 1)

\* the graph RefreshGraph builds from one GetAllPools result
BuildGraph(allPools) == BuildFrom(EmptyGraph, allPools, 1)

\* ------------------------------------------------------------------------
\* Priority queue of the search (priorityQueue under container/heap);
\* positions are 0-based as in the code, the sequence is 1-based
\* ------------------------------------------------------------------------
PathState(path, amountOut, lastToken) ==
  [path |-> path, amountOut |-> amountOut, lastToken |-> lastToken]

Less(h, i, j) == h[i + 1].amountOut > h[j + 1].amountOut

Swap(h, i, j) ==
  [k \in 1..Len(h) |-> IF k = i + 1 THEN h[j + 1]
                        ELSE IF k = j + 1 THEN h[i + 1] ELSE h[k]]

RECURSIVE HeapUp(_, _)
HeapUp(h, j) ==
  LET i == IF j = 0 THEN 0 ELSE (j - 1) \div 2
  IN  IF i = j \/ ~Less(h, j, i) THEN h
      ELSE HeapUp(Swap(h, i, j), i)

RECURSIVE HeapDown(_, _, _)
HeapDown(h, i, n) ==
  LET j1 == 2 * i + 1
      j2 == j1 + 1
      j == IF j2 < n /\ Less(h, j2, j1) THEN j2 ELSE j1
  IN  IF j1 >= n THEN h
      ELSE IF ~Less(h, j, i) THEN h
      ELSE HeapDown(Swap(h, i, j), j, n)

HeapPush(h, x) == HeapUp(Append(h, x), Len(h))

\* heap.Pop: the root is swapped to the end, the rest is sifted, the end
\* is removed and returned
HeapPopped(h) == HeapDown(Swap(h, 0, Len(h) - 1), 0, Len(h) - 1)
HeapPopItem(h) == h[1]
HeapPopRest(h) == SubSeq(HeapPopped(h), 1, Len(h) - 1)

\* ------------------------------------------------------------------------
\* Router helpers
\* ------------------------------------------------------------------------
\* variant: the exchange name is compared as stored
PoolGas_asStored(pool) ==
  CASE pool.exchange = "uniswap v2" -> UniswapGas
    [] pool.exchange = "sushiswap" -> SushiswapGas
    [] OTHER -> DefaultPoolGas

PoolGas(pool) ==
  CASE ToLower(pool.exchange) = "uniswap v2" -> UniswapGas
    [] ToLower(pool.exchange) = "sushiswap" -> SushiswapGas
    [] OTHER -> DefaultPoolGas

RECURSIVE SwapGas(_, _)
SwapGas(path, i) ==
  IF i > Len(path) THEN 0 ELSE PoolGas(path[i]) + SwapGas(path, i + 1)

estimateGasCost(path) == BaseGas + SwapGas(path, 1)

getDexesFromPath(path) == [i \in 1..Len(path) |-> path[i].exchange]

TradePath(p, amountOut) ==
  [pools |-> p, amountOut |-> amountOut,
   dexes |-> getDexesFromPath(p), gasCost |-> estimateGasCost(p)]

\* variant: paths are ranked by output net of gas cost
SortLess_net(x, y) == x.amountOut - x.gasCost > y.amountOut - y.gasCost

\* the comparator handed to sort.Slice in findOptimalPath
SortLess(x, y) == x.amountOut > y.amountOut

\* sort.Slice on a short slice is an insertion sort: each element moves
\* left while it is less than its left neighbour
RECURSIVE InsertLeft(_, _)
InsertLeft(s, j) ==
  IF j > 1 /\ SortLess(s[j], s[j - 1])
  THEN InsertLeft([k \in 1..Len(s) |-> IF k = j THEN s[j - 1]
                                       ELSE IF k = j - 1 THEN s[j] ELSE s[k]], j - 1)
  ELSE s

RECURSIVE SortFrom(_, _)
SortFrom(s, i) == IF i > Len(s) THEN s ELSE SortFrom(InsertLeft(s, i), i + 1)

SortSlice(s) == SortFrom(s, 2)

\* findOptimalPath: the slice is sorted in place and its head returned
findOptimalPath(tradePaths) == SortSlice(tradePaths)[1]

ErrorResponse(e) ==
  [status |-> "error", err |-> e, amountOut |-> 0, paths |-> << >>,
   bestPath |-> TradePath(<< >>, 0), gasEstimate |-> 0]

QuoteResponse(tradePaths) ==
  LET bestPath == findOptimalPath(tradePaths)
  IN  [status |-> "ok", err |-> "none", amountOut |-> bestPath.amountOut,
       paths |-> SortSlice(tradePaths), bestPath |-> bestPath,
       gasEstimate |-> bestPath.gasCost]

NoResponse == ErrorResponse("pending")

\* ------------------------------------------------------------------------
\* Path finder helpers
\* ------------------------------------------------------------------------
\* variant: the loop check never finds the token
pathContainsToken_never(path, token) == FALSE

pathContainsToken(path, token) ==
  \E i \in 1..Len(path) :
     ToLower(path[i].token0) = token \/ ToLower(path[i].token1) = token

\* a simulated hop is kept unless `err != nil || amountOut <= 0`
HopUsable(hop) == hop.err = "none" /\ hop.amount > 0

\* the two endpoint checks on the snapshot's adj
EndpointsKnown(gd, tokenIn, tokenOut) ==
  tokenIn \in DOMAIN gd.adj /\ tokenOut \in DOMAIN gd.adj

\* all orders in which a Go map range can enumerate a key set
Perms(S) ==
  { s \in [1..Cardinality(S) -> S] :
      \A i, j \in 1..Cardinality(S) : i # j => s[i] # s[j] }

\* variant: the pools of the edge are looked up in the store's token-pair
\* index at search time
PoolsBetween_store(gd, from, to) ==
  LET addrs == EdgeList(tokenPairs, from, to)
  IN  [k \in 1..Len(addrs) |-> storePools[addrs[k]]]

\* g.poolMap[from][to]
PoolsBetween(gd, from, to) == EdgeList(gd.poolMap, from, to)

\* the (neighbor, pool) pairs visited by the nested loops, in loop order
RECURSIVE EdgeCandidates(_, _, _, _)
EdgeCandidates(gd, from, order, i) ==
  IF i > Len(order) THEN << >>
  ELSE LET ps == PoolsBetween(gd, from, order[i])
       IN  [k \in 1..Len(ps) |-> [token |-> order[i], pool |-> ps[k]]]
             \o EdgeCandidates(gd, from, order, i + 1)

\* variant: every usable next state counts as an improvement
BetterThanKnown_always(best, token, amount) == TRUE

BetterThanKnown(best, token, amount) ==
  token \notin DOMAIN best \/ amount > best[token]

\* seeding loop: every usable first hop is pushed, best is raised
RECURSIVE SeedFrom(_, _, _, _, _)
SeedFrom(cands, i, st, amountIn, tokenIn) ==
  IF i > Len(cands) THEN st
  ELSE
    LET pool == cands[i].pool
        neighborToken == cands[i].token
        hop == CalculateOutput(pool, amountIn, tokenIn)
    IN  IF ~HopUsable(hop) THEN SeedFrom(cands, i + 1, st, amountIn, tokenIn)
        ELSE SeedFrom(cands, i + 1,
               [pq |-> HeapPush(st.pq, PathState(<<pool>>, hop.amount, neighborToken)),
                best |-> IF BetterThanKnown(st.best, neighborToken, hop.amount)
                         THEN MapPut(st.best, neighborToken, hop.amount)
                         ELSE st.best],
               amountIn, tokenIn)

\* expansion loop of one popped state
RECURSIVE ExpandFrom(_, _, _, _)
ExpandFrom(cands, i, st, cur) ==
  IF i > Len(cands) THEN st
  ELSE
    LET pool == cands[i].pool
        nextHopToken == cands[i].token
        hop == CalculateOutput(pool, cur.amountOut, cur.lastToken)
    IN  IF HopUsable(hop) /\ BetterThanKnown(st.best, nextHopToken, hop.amount)
        THEN ExpandFrom(cands, i + 1,
               [pq |-> HeapPush(st.pq,
                          PathState(Append(cur.path, pool), hop.amount, nextHopToken)),
                best |-> MapPut(st.best, nextHopToken, hop.amount)],
               cur)
        ELSE ExpandFrom(cands, i + 1, st, cur)

\* the hop limit FindBestPaths works with: `if maxHops <= 0`
EffectiveMaxHops(maxHops) == IF maxHops <= 0 THEN FinderMaxHops ELSE maxHops

\* variant: the comparison is off by one
HopLimitReached_late(path, maxHops) == Len(path) > EffectiveMaxHops(maxHops)

\* `len(currentState.path) >= maxHops`
HopLimitReached(path, maxHops) == Len(path) >= EffectiveMaxHops(maxHops)

\* variant: the loop runs until one path more than asked for is kept
SearchContinues_more(queue, kept, limit) == Len(queue) > 0 /\ Len(kept) <= limit

\* the loop condition `pq.Len() > 0 && len(bestPaths) < maxPaths`
SearchContinues(queue, kept, limit) == Len(queue) > 0 /\ Len(kept) < limit

\* neighbors of the popped state that pass the loop check, in range order
OpenNeighbors(order, path) ==
  SelectSeq(order, LAMBDA t : ~pathContainsToken(path, t))

Requests ==
  { [tokenIn |-> "a", tokenOut |-> "c", amountIn |-> 100, maxHops |-> 3],
    [tokenIn |-> "A", tokenOut |-> "C", amountIn |-> 50,  maxHops |-> 0],
    [tokenIn |-> "a", tokenOut |-> "d", amountIn |-> 1,   maxHops |-> 2],
    [tokenIn |-> "a", tokenOut |-> "c", amountIn |-> 100, maxHops |-> 1],
    [tokenIn |-> "c", tokenOut |-> "b", amountIn |-> 100, maxHops |-> -1] }

\* requests issued while the store and the graph change
SystemRequests ==
  { [tokenIn |-> "a", tokenOut |-> "c", amountIn |-> 100, maxHops |-> 0],
    [tokenIn |-> "a", tokenOut |-> "b", amountIn |-> 100, maxHops |-> 2] }

NoRequest == [tokenIn |-> "", tokenOut |-> "", amountIn |-> 0, maxHops |-> 0]
NoFound == [paths |-> << >>, err |-> "pending"]

tokenIn == ToLower(req.tokenIn)
tokenOut == ToLower(req.tokenOut)

\* ------------------------------------------------------------------------
\* Router.GetBestQuote
\* ------------------------------------------------------------------------
\* the number of paths GetBestQuote asks the finder for
RouterMaxPaths(amountIn) ==
  IF amountIn > OneEther THEN LargeMaxPaths ELSE SmallMaxPaths

\* entry up to the call of FindBestPaths: addresses are lowercased, the
\* store is read for logging only, MaxHops and maxPaths are fixed
GetBestQuoteEnters(requests) ==
  /\ sys = "running"
  /\ qpc \in {"idle", "done"}
  /\ nQuote < MaxQuotes
  /\ \E r \in requests :
       /\ req' = [r EXCEPT !.maxHops = IF r.maxHops = 0 THEN DefaultMaxHops ELSE r.maxHops]
       /\ maxPaths' = RouterMaxPaths(r.amountIn)
  /\ nQuote' = nQuote + 1
  /\ qpc' = "find"
  /\ gAtIssue' = graph
  /\ g' = 0
  /\ pq' = << >>
  /\ bestAmountPerToken' = EmptyMap
  /\ bestPaths' = << >>
  /\ found' = NoFound
  /\ workers' = << >>
  /\ sem' = 0
  /\ resultsChan' = << >>
  /\ errorChan' = << >>
  /\ response' = NoResponse
  /\ cancelled' = FALSE

\* GetBestQuote on a MemoryStore: GetAllPools only reads
QuoteStartFrom(requests) ==
  /\ GetBestQuoteEnters(requests)
  /\ UNCHANGED <<unitVars, storeVars, graphVars>>

\* variant: an empty candidate list is handed to the evaluation
NoCandidates_never(paths) == FALSE

\* `len(paths) == 0` after the call of FindBestPaths
NoCandidates(paths) == Len(paths) = 0

\* FindBestPaths returns to GetBestQuote: no candidate is NoPath, otherwise
\* one worker per candidate is started
FindReturns(paths, e) ==
  /\ found' = [paths |-> paths, err |-> e]
  /\ IF e # "none"
     THEN /\ response' = ErrorResponse(e)
          /\ qpc' = "done"
          /\ workers' = << >>
     ELSE IF NoCandidates(paths)
     THEN /\ response' = ErrorResponse("no_path")
          /\ qpc' = "done"
          /\ workers' = << >>
     ELSE /\ response' = response
          /\ qpc' = "evaluate"
          /\ workers' = [i \in 1..Len(paths) |-> "waiting"]
  /\ sem' = 0
  /\ resultsChan' = << >>
  /\ errorChan' = << >>

\* FindBestPaths: the snapshot is loaded once and the endpoints checked
FindLoad ==
  /\ qpc = "find"
  /\ g' = graph
  /\ IF graph = 0
     THEN FindReturns(<< >>, "graph_not_initialized")
     ELSE IF ~EndpointsKnown(snaps[graph], tokenIn, tokenOut)
     THEN FindReturns(<< >>, "none")
     ELSE /\ qpc' = "seed"
          /\ UNCHANGED <<found, response, evalVars>>
  /\ UNCHANGED <<unitVars, storeVars, graphVars, pq, bestAmountPerToken, bestPaths,
                 req, maxPaths, gAtIssue, nQuote, cancelled>>

\* FindBestPaths: all first hops are simulated and queued
FindSeed ==
  /\ qpc = "seed"
  /\ \E order \in Perms(InnerSet(snaps[g].adj, tokenIn)) :
       LET st == SeedFrom(EdgeCandidates(snaps[g], tokenIn, order, 1), 1,
                          [pq |-> << >>, best |-> EmptyMap], req.amountIn, tokenIn)
       IN  /\ pq' = st.pq
           /\ bestAmountPerToken' = st.best
  /\ qpc' = "search"
  /\ UNCHANGED <<unitVars, storeVars, graphVars, g, bestPaths, found, evalVars,
                 req, maxPaths, gAtIssue, nQuote, response, cancelled>>

\* FindBestPaths: one iteration of the search loop
FindPop ==
  /\ qpc = "search"
  /\ SearchContinues(pq, bestPaths, maxPaths)
  /\ LET currentState == HeapPopItem(pq)
         rest == HeapPopRest(pq)
     IN  IF /\ currentState.lastToken \in DOMAIN bestAmountPerToken
            /\ currentState.amountOut < bestAmountPerToken[currentState.lastToken]
         THEN /\ pq' = rest
              /\ UNCHANGED <<bestAmountPerToken, bestPaths>>
         ELSE IF currentState.lastToken = tokenOut
         THEN /\ pq' = rest
              /\ bestPaths' = Append(bestPaths, currentState.path)
              /\ UNCHANGED bestAmountPerToken
         ELSE IF HopLimitReached(currentState.path, req.maxHops)
         THEN /\ pq' = rest
              /\ UNCHANGED <<bestAmountPerToken, bestPaths>>
         ELSE \E order \in Perms(InnerSet(snaps[g].adj, currentState.lastToken)) :
                LET open == OpenNeighbors(order, currentState.path)
                    st == ExpandFrom(
                            EdgeCandidates(snaps[g], currentState.lastToken, open, 1), 1,
                            [pq |-> rest, best |-> bestAmountPerToken], currentState)
                IN  /\ pq' = st.pq
                    /\ bestAmountPerToken' = st.best
                    /\ UNCHANGED bestPaths
  /\ UNCHANGED <<unitVars, storeVars, graphVars, g, found, evalVars, quoteVars>>

\* FindBestPaths: the loop ends and the collected paths are returned
FindDone ==
  /\ qpc = "search"
  /\ ~SearchContinues(pq, bestPaths, maxPaths)
  /\ FindReturns(bestPaths, "none")
  /\ UNCHANGED <<unitVars, storeVars, graphVars, g, pq, bestAmountPerToken, bestPaths,
                 req, maxPaths, gAtIssue, nQuote, cancelled>>

\* calculatePathsConcurrently: a worker takes a slot of the semaphore
\* variant: the send on the semaphore channel never blocks
SemHasSlot_unbounded(n) == TRUE

SemHasSlot(n) == n < maxConcurrent

WorkerAcquire(i) ==
  /\ qpc = "evaluate"
  /\ i \in 1..Len(workers)
  /\ workers[i] = "waiting"
  /\ SemHasSlot(sem)
  /\ sem' = sem + 1
  /\ workers' = [workers EXCEPT ![i] = "holding"]
  /\ UNCHANGED <<unitVars, storeVars, graphVars, searchVars, resultsChan, errorChan, quoteVars>>

\* variant: only a negative output is dropped
NoOutput_negative(amountOut) == amountOut < 0

\* `amountOut.Cmp(big.NewInt(0)) <= 0`
NoOutput(amountOut) == amountOut <= 0

\* calculatePathsConcurrently: the worker recomputes its path, reports the
\* outcome, gives the slot back and leaves the wait group
WorkerFinish(i) ==
  /\ qpc = "evaluate"
  /\ i \in 1..Len(workers)
  /\ workers[i] = "holding"
  /\ LET p == found.paths[i]
         out == CalculatePathOutput(p, req.amountIn, tokenIn, tokenOut)
     IN  IF out.err # "none"
         THEN /\ errorChan' = Append(errorChan, out.err)
              /\ UNCHANGED resultsChan
         ELSE IF NoOutput(out.amount)
         THEN UNCHANGED <<resultsChan, errorChan>>
         ELSE /\ resultsChan' = Append(resultsChan, TradePath(p, out.amount))
              /\ UNCHANGED errorChan
  /\ sem' = sem - 1
  /\ workers' = [workers EXCEPT ![i] = "done"]
  /\ UNCHANGED <<unitVars, storeVars, graphVars, searchVars, quoteVars>>

\* both channels are closed once every worker has left; GetBestQuote then
\* drains them, selects the best path and answers
QuoteCollect ==
  /\ qpc = "evaluate"
  /\ \A i \in 1..Len(workers) : workers[i] = "done"
  /\ response' = IF Len(resultsChan) = 0
                 THEN ErrorResponse("no_viable_quote")
                 ELSE QuoteResponse(resultsChan)
  /\ qpc' = "done"
  /\ UNCHANGED <<unitVars, storeVars, graphVars, searchVars, evalVars,
                 req, maxPaths, gAtIssue, nQuote, cancelled>>

\* the caller cancels the request context while the quote is in flight
Cancel ==
  /\ qpc \notin {"idle", "done"}
  /\ ~cancelled
  /\ cancelled' = TRUE
  /\ UNCHANGED <<unitVars, storeVars, graphVars, searchVars, evalVars,
                 qpc, req, maxPaths, gAtIssue, nQuote, response>>

\* ------------------------------------------------------------------------
\* Pool store (cache.Store contract, MemoryStore representation)
\* ------------------------------------------------------------------------
\* a StorePool that leaves the store as it was
StorePoolInto_dropped(st, pool) == st

\* MemoryStore.StorePool: the record replaces the one under its address and
\* its address is appended to both directions of the token-pair index
StorePoolInto(st, pool) ==
  LET stored == [pool EXCEPT !.token0 = ToLower(pool.token0),
                             !.token1 = ToLower(pool.token1),
                             !.reserve0 = IF @ = NilReserve THEN 0 ELSE @,
                             !.reserve1 = IF @ = NilReserve THEN 0 ELSE @]
      token0 == stored.token0
      token1 == stored.token1
      tpA == MapPut(st.tokenPairs, token0, Inner(st.tokenPairs, token0))
      tpB == MapPut(tpA, token1, Inner(tpA, token1))
      tpC == MapPut(tpB, token0,
                MapPut(tpB[token0], token1, Append(EdgeList(tpB, token0, token1), stored.address)))
      tpD == MapPut(tpC, token1,
                MapPut(tpC[token1], token0, Append(EdgeList(tpC, token1, token0), stored.address)))
  IN  [pools |-> MapPut(st.pools, stored.address, stored), tokenPairs |-> tpD]

RECURSIVE StoreAllFrom(_, _, _)
StoreAllFrom(st, ps, i) ==
  IF i > Len(ps) THEN st ELSE StoreAllFrom(StorePoolInto(st, ps[i]), ps, i + 1)

EmptyStore == [pools |-> EmptyMap, tokenPairs |-> EmptyMap]

\* the records GetAllPools enumerates
StoredPools == { storePools[a] : a \in DOMAIN storePools }

\* pools the collector may add while the service runs
AddablePools == { p \in PoolCatalog : p.address \in {"p6", "p8"} }

\* catalogs the store holds when the service starts
InitialCatalogs ==
  { <<CHOOSE p \in PoolCatalog : p.address = "p4">>,
    <<CHOOSE p \in PoolCatalog : p.address = "p1",
      CHOOSE p \in PoolCatalog : p.address = "p8">> }

StorePool ==
  /\ sys = "running"
  /\ nStore < MaxStorePools
  /\ \E pool \in AddablePools :
       LET st == StorePoolInto([pools |-> storePools, tokenPairs |-> tokenPairs], pool)
       IN  /\ storePools' = st.pools
           /\ tokenPairs' = st.tokenPairs
  /\ nStore' = nStore + 1
  /\ UNCHANGED <<unitVars, graphVars, searchVars, evalVars, quoteVars>>

\* ------------------------------------------------------------------------
\* PathFinder.RefreshGraph, NewPathFinder and runGraphRefresher
\* ------------------------------------------------------------------------
Refreshers == {"ctor", "ticker", "explicit"}

\* err is what the last call returned
IdleRefresh == [pc |-> "idle", allPools |-> << >>, i |-> 0, build |-> 0, err |-> "none"]

\* variant: a failed refresh clears the pointer
GraphAfterFailedRefresh_nil(current) == 0

\* what PathFinder.graph holds after a RefreshGraph that returned an error
GraphAfterFailedRefresh(current) == current

\* variant: the loop writes into the maps of the current snapshot
BuildTarget_current(r) == IF graph # 0 THEN graph ELSE r.build

\* the maps the loop over allPools writes into: the ones it allocated
BuildTarget(r) == r.build

\* the pointer is stored only after the loop over allPools has ended
ReadyToPublish(r) == r.i > Len(r.allPools)

\* RefreshGraph up to the allocation of the three fresh maps: the store is
\* enumerated; an error is returned to the caller (fatal in the constructor,
\* logged by the ticker)
RefreshReadWithin(r, limit) ==
  /\ rf[r].pc = "idle"
  /\ IF r = "ctor" THEN sys = "init" ELSE sys = "running" /\ nRefresh < limit
  /\ nRefresh' = IF r = "ctor" THEN nRefresh ELSE nRefresh + 1
  /\ \/ \E order \in Perms(StoredPools) :
          /\ snaps' = Append(snaps, EmptyGraph)
          /\ snapSrc' = Append(snapSrc, StoredPools)
          /\ rf' = [rf EXCEPT ![r] = [pc |-> "build", allPools |-> order, i |-> 1,
                                      build |-> Len(snaps) + 1, err |-> "none"]]
          /\ UNCHANGED <<graph, sys>>
     \/ /\ graph' = GraphAfterFailedRefresh(graph)
        /\ sys' = IF r = "ctor" THEN "fatal" ELSE sys
        /\ rf' = [rf EXCEPT ![r].err = "store_unavailable"]
        /\ UNCHANGED <<snaps, snapSrc>>
  /\ UNCHANGED <<unitVars, published, storeVars, searchVars, evalVars, quoteVars>>

RefreshRead(r) == RefreshReadWithin(r, MaxRefreshes)

\* one iteration of the loop over allPools, on the maps under construction
RefreshBuild(r) ==
  /\ rf[r].pc = "build"
  /\ rf[r].i <= Len(rf[r].allPools)
  /\ snaps' = [snaps EXCEPT ![BuildTarget(rf[r])] = AddPoolToGraph(@, rf[r].allPools[rf[r].i])]
  /\ rf' = [rf EXCEPT ![r].i = @ + 1]
  /\ UNCHANGED <<unitVars, snapSrc, graph, published, nRefresh, sys,
                 storeVars, searchVars, evalVars, quoteVars>>

\* variant: the pointer is stored only while no snapshot is published
RefreshPublish_once(r) ==
  /\ rf[r].pc = "build"
  /\ ReadyToPublish(rf[r])
  /\ graph' = IF graph # 0 THEN graph ELSE rf[r].build
  /\ published' = published \cup {graph'}
  /\ rf' = [rf EXCEPT ![r] = IdleRefresh]
  /\ sys' = IF r = "ctor" THEN "running" ELSE sys
  /\ UNCHANGED <<unitVars, snaps, snapSrc, nRefresh, storeVars, searchVars, evalVars, quoteVars>>

\* pf.graph.Store(newGraph); the constructor then returns and the ticker starts
RefreshPublish(r) ==
  /\ rf[r].pc = "build"
  /\ ReadyToPublish(rf[r])
  /\ graph' = rf[r].build
  /\ published' = published \cup {rf[r].build}
  /\ rf' = [rf EXCEPT ![r] = IdleRefresh]
  /\ sys' = IF r = "ctor" THEN "running" ELSE sys
  /\ UNCHANGED <<unitVars, snaps, snapSrc, nRefresh, storeVars, searchVars, evalVars, quoteVars>>

\* ------------------------------------------------------------------------
\* Specifications
\* ------------------------------------------------------------------------
\* no direct calculator call and no cache in use
NoCall == [pc |-> "none"]

CalcIdle == calc = NoCall

\* the callers of the two-level cache
CacheClients == {"k1", "k2"}

\* no record: the nil *types.Pool
NilPool == [address |-> "nil"]

\* a client that is not inside a TwoLevelCache method
NoCacheCall ==
  [op |-> "none", pc |-> "none", address |-> "", pool |-> NilPool,
   err |-> "none", remote |-> "none"]

\* &CacheStats{}
ZeroStats == [LocalHits |-> 0, LocalMisses |-> 0, RedisHits |-> 0, RedisMisses |-> 0]

\* a Redis server without keys of the dex: prefix
EmptyRedis == [keys |-> EmptyMap, tokenPairs |-> {}, allPools |-> {}, tokens |-> EmptyMap]

\* NewTwoLevelCache: empty MemoryStore, zero counters, nothing running
FreshCache ==
  /\ localCache = EmptyStore
  /\ stats = ZeroStats
  /\ calls = [c \in CacheClients |-> NoCacheCall]
  /\ backfill = << >>
  /\ nCacheOps = 0
  /\ nGetPool = 0
  /\ warming = << >>

CacheIdle ==
  /\ FreshCache
  /\ redisCache = EmptyRedis

SingleCaller == parked = << >> /\ running = 0 /\ overlapped = FALSE

DirectIdle == storeCall = NoCall /\ storeLog = << >> /\ SingleCaller

UnitsIdle == CalcIdle /\ CacheIdle /\ DirectIdle

\* NewRouter: maxConcurrent is perfConfig.MaxConcurrentPaths as configured
RouterBuilt == maxConcurrent = MaxConcurrentPaths

QuoteIdle ==
  /\ qpc = "idle"
  /\ req = NoRequest
  /\ maxPaths = 0
  /\ g = 0
  /\ gAtIssue = 0
  /\ nQuote = 0
  /\ pq = << >>
  /\ bestAmountPerToken = EmptyMap
  /\ bestPaths = << >>
  /\ found = NoFound
  /\ workers = << >>
  /\ sem = 0
  /\ resultsChan = << >>
  /\ errorChan = << >>
  /\ response = NoResponse
  /\ cancelled = FALSE

\* the service from the call of NewRouter on: the store already holds the
\* collector's pools, the constructor has not yet loaded the graph
Init ==
  /\ sys = "init"
  /\ \E cat \in InitialCatalogs :
       LET st == StoreAllFrom(EmptyStore, cat, 1)
       IN  /\ storePools = st.pools
           /\ tokenPairs = st.tokenPairs
  /\ nStore = 0
  /\ snaps = << >>
  /\ snapSrc = << >>
  /\ graph = 0
  /\ published = {}
  /\ rf = [r \in Refreshers |-> IdleRefresh]
  /\ nRefresh = 0
  /\ UnitsIdle
  /\ QuoteIdle
  /\ RouterBuilt

Next ==
  \/ StorePool
  \/ \E r \in Refreshers : RefreshRead(r)
  \/ \E r \in Refreshers : RefreshBuild(r)
  \/ \E r \in Refreshers : RefreshPublish(r)
  \/ QuoteStartFrom(SystemRequests)
  \/ FindLoad
  \/ FindSeed
  \/ FindPop
  \/ FindDone
  \/ \E i \in 1..SmallMaxPaths : WorkerAcquire(i)
  \/ \E i \in 1..SmallMaxPaths : WorkerFinish(i)
  \/ QuoteCollect

Spec == Init /\ [][Next]_vars

\* a single quote against a fixed store and the snapshot built from it:
\* the store holds any catalog of at most MaxCatalog pools, enumerated in
\* any order by the refresh that built the current snapshot
InitQuote ==
  /\ sys = "running"
  /\ \E S \in SUBSET PoolCatalog :
       /\ Cardinality(S) <= MaxCatalog
       /\ \E order \in Perms(S) :
            LET st == StoreAllFrom(EmptyStore, order, 1)
            IN  /\ storePools = st.pools
                /\ tokenPairs = st.tokenPairs
                /\ snaps = <<BuildGraph(order)>>
                /\ snapSrc = <<S>>
  /\ nStore = 0
  /\ graph = 1
  /\ published = {1}
  /\ rf = [r \in Refreshers |-> IdleRefresh]
  /\ nRefresh = 0
  /\ UnitsIdle
  /\ QuoteIdle
  /\ RouterBuilt

NextQuote ==
  \/ QuoteStartFrom(Requests)
  \/ FindLoad
  \/ FindSeed
  \/ FindPop
  \/ FindDone
  \/ \E i \in 1..SmallMaxPaths : WorkerAcquire(i)
  \/ \E i \in 1..SmallMaxPaths : WorkerFinish(i)
  \/ QuoteCollect
  \/ Cancel

SpecQuote == InitQuote /\ [][NextQuote]_vars

\* FindBestPaths called directly with any maxPaths of 1..MaxPathsAsked
\* (gAtIssue = 0: no GetBestQuote was issued), or called by GetBestQuote
InitFind ==
  \/ InitQuote
  \/ /\ sys = "running"
     /\ \E S \in SUBSET PoolCatalog :
          /\ Cardinality(S) <= MaxCatalog
          /\ \E order \in Perms(S) :
               LET st == StoreAllFrom(EmptyStore, order, 1)
               IN  /\ storePools = st.pools
                   /\ tokenPairs = st.tokenPairs
                   /\ snaps = <<BuildGraph(order)>>
                   /\ snapSrc = <<S>>
     /\ nStore = 0
     /\ graph = 1
     /\ published = {1}
     /\ rf = [r \in Refreshers |-> IdleRefresh]
     /\ nRefresh = 0
     /\ UnitsIdle
     /\ RouterBuilt
     /\ qpc = "find"
     /\ req = [tokenIn |-> "a", tokenOut |-> "c", amountIn |-> 100, maxHops |-> 0]
     /\ maxPaths \in 1..MaxPathsAsked
     /\ g = 0
     /\ gAtIssue = 0
     /\ nQuote = MaxQuotes
     /\ pq = << >>
     /\ bestAmountPerToken = EmptyMap
     /\ bestPaths = << >>
     /\ found = NoFound
     /\ workers = << >>
     /\ sem = 0
     /\ resultsChan = << >>
     /\ errorChan = << >>
     /\ response = NoResponse
     /\ cancelled = FALSE

\* the direct call ends when FindBestPaths returns
NextFind ==
  \/ QuoteStartFrom(Requests)
  \/ FindLoad
  \/ FindSeed
  \/ FindPop
  \/ FindDone
  \/ gAtIssue # 0 /\ \E i \in 1..SmallMaxPaths : WorkerAcquire(i)
  \/ gAtIssue # 0 /\ \E i \in 1..SmallMaxPaths : WorkerFinish(i)
  \/ gAtIssue # 0 /\ QuoteCollect

SpecFind == InitFind /\ [][NextFind]_vars

\* a pool without liquidity on one side
DryPool == Pool("z0", "Uniswap V2", "a", "c", 0, 500)

\* the pools the evaluated candidates are made of, in store order
EvalPools ==
  [k \in 1..5 |-> CHOOSE p \in PoolCatalog : p.address = <<"p1", "p2", "p3", "p4", "p6">>[k]]
    \o <<DryPool>>

\* candidates handed to calculatePathsConcurrently for a request a -> c of
\* 100: paths with a positive output, paths whose recomputation fails
\* (slippage at the second hop, input token not in the pool, wrong final
\* token) and paths without output (dry pool, no pool)
EvalCandidates ==
  LET P(k) == EvalPools[k]
  IN  { <<P(4)>>, <<P(5)>>, <<P(2), P(3)>>, <<P(1), P(3)>>, <<P(3)>>, <<P(1)>>,
        <<P(6)>>, << >> }

\* lists of n pairwise distinct elements of S
DistinctSeqs(S, n) ==
  { t \in [1..n -> S] : \A i, j \in 1..n : i # j => t[i] # t[j] }

\* calculatePathsConcurrently called on any list of at most MaxCandidates
\* candidates
InitEval ==
  /\ sys = "running"
  /\ LET st == StoreAllFrom(EmptyStore, EvalPools, 1)
     IN  /\ storePools = st.pools
         /\ tokenPairs = st.tokenPairs
  /\ snaps = <<BuildGraph(EvalPools)>>
  /\ snapSrc = <<{ EvalPools[k] : k \in 1..Len(EvalPools) }>>
  /\ nStore = 0
  /\ graph = 1
  /\ published = {1}
  /\ rf = [r \in Refreshers |-> IdleRefresh]
  /\ nRefresh = 0
  /\ UnitsIdle
  /\ RouterBuilt
  /\ qpc = "evaluate"
  /\ req = [tokenIn |-> "a", tokenOut |-> "c", amountIn |-> 100, maxHops |-> DefaultMaxHops]
  /\ maxPaths = LargeMaxPaths
  /\ g = 1
  /\ gAtIssue = 1
  /\ nQuote = 1
  /\ pq = << >>
  /\ bestAmountPerToken = EmptyMap
  /\ \E n \in 1..MaxCandidates : \E cands \in DistinctSeqs(EvalCandidates, n) :
        /\ bestPaths = cands
        /\ found = [paths |-> cands, err |-> "none"]
        /\ workers = [i \in 1..n |-> "waiting"]
  /\ sem = 0
  /\ resultsChan = << >>
  /\ errorChan = << >>
  /\ response = NoResponse
  /\ cancelled = FALSE

NextEval ==
  \/ \E i \in 1..SmallMaxPaths : WorkerAcquire(i)
  \/ \E i \in 1..SmallMaxPaths : WorkerFinish(i)
  \/ QuoteCollect

SpecEval == InitEval /\ [][NextEval]_vars

\* ------------------------------------------------------------------------
\* The price calculator called directly
\* ------------------------------------------------------------------------
\* no store, no graph and no quote
SystemIdle ==
  /\ sys = "running"
  /\ storePools = EmptyStore.pools
  /\ tokenPairs = EmptyStore.tokenPairs
  /\ nStore = 0
  /\ snaps = << >>
  /\ snapSrc = << >>
  /\ graph = 0
  /\ published = {}
  /\ rf = [r \in Refreshers |-> IdleRefresh]
  /\ nRefresh = MaxRefreshes
  /\ QuoteIdle
  /\ RouterBuilt

\* pools handed to the calculator: balanced and unbalanced reserves, token
\* addresses in upper case, no liquidity on the input or on the output side
CalcPools ==
  { Pool("p1", "Uniswap V2", "a", "b", 5000, 5000),
    Pool("p3", "Uniswap V2", "b", "c", 2400, 2400),
    Pool("p4", "SushiSwap", "a", "c", 5000, 2500),
    Pool("p8", "SushiSwap", "b", "c", 2500, 5000),
    Pool("u1", "Uniswap V2", "A", "B", 3000, 3000),
    DryPool,
    Pool("z1", "Uniswap V2", "a", "c", 500, 0) }

CalcAmounts == {0, 1, 50, 100, 300}

CalcTokens == {"a", "A", "b", "c", "d"}

\* the pools of the hop lists handed to CalculatePathOutput
HopPools == { p \in CalcPools : p.address \in {"p1", "p3", "p4", "p8", "z0"} }

\* lists of at most n elements of S
SeqsUpTo(S, n) == UNION { [1..k -> S] : k \in 0..n }

\* reserves and amounts in base units (wei), as sequences of base-10000
\* digits: amounts around the one at which a pool of 10^18 / 10^18 reaches a
\* price impact of 5 percent, and the reserves and amounts of CalcPools
WideReserves ==
  { BFromGroups(<<100, 0, 0, 0, 0>>), BFromInt(2400), BFromInt(5000), BZero }

WideAmounts ==
  { BFromGroups(<<4, 9622, 5518, 6612, 4600>>),
    BFromGroups(<<4, 9622, 5518, 6612, 4675>>),
    BFromGroups(<<4, 9622, 5518, 6612, 4700>>),
    BFromInt(100), BFromInt(300), BZero }

CalcCalls ==
  { [pc |-> "call", fn |-> "CalculateOutput", pool |-> p, amountIn |-> x, tokenIn |-> t] :
      p \in CalcPools, x \in CalcAmounts, t \in CalcTokens }
  \cup
  { [pc |-> "call", fn |-> "CalculatePathOutput", pools |-> ps, amountIn |-> x,
     tokenIn |-> t, tokenOut |-> u] :
      ps \in SeqsUpTo(HopPools, MaxCalcHops), x \in {0, 100}, t \in {"a", "A", "d"},
      u \in {"c", "C", "b"} }
  \cup
  { [pc |-> "call", fn |-> "checkSlippageWithLimit", reserveIn |-> ri, reserveOut |-> ro,
     amountIn |-> x, maxSlippage |-> m] :
      ri \in WideReserves, ro \in WideReserves, x \in WideAmounts,
      m \in {1, DefaultMaxSlippage} }

Returned(call, amt, e) ==
  [f \in (DOMAIN call) \cup {"amount", "err"} |->
     IF f = "pc" THEN "return"
     ELSE IF f = "amount" THEN amt
     ELSE IF f = "err" THEN e
     ELSE call[f]]

CalculateOutputReturns ==
  /\ calc.pc = "call"
  /\ calc.fn = "CalculateOutput"
  /\ LET r == CalculateOutput(calc.pool, calc.amountIn, calc.tokenIn)
     IN  calc' = Returned(calc, r.amount, r.err)
  /\ UNCHANGED <<storeVars, graphVars, searchVars, evalVars, quoteVars, cacheVars, directVars, routerVars>>

CalculatePathOutputReturns ==
  /\ calc.pc = "call"
  /\ calc.fn = "CalculatePathOutput"
  /\ LET r == CalculatePathOutput(calc.pools, calc.amountIn, calc.tokenIn, calc.tokenOut)
     IN  calc' = Returned(calc, r.amount, r.err)
  /\ UNCHANGED <<storeVars, graphVars, searchVars, evalVars, quoteVars, cacheVars, directVars, routerVars>>

checkSlippageWithLimitReturns ==
  /\ calc.pc = "call"
  /\ calc.fn = "checkSlippageWithLimit"
  /\ calc' = Returned(calc, BZero,
                      checkSlippageWithLimitWide(calc.reserveIn, calc.reserveOut,
                                                 calc.amountIn, calc.maxSlippage))
  /\ UNCHANGED <<storeVars, graphVars, searchVars, evalVars, quoteVars, cacheVars, directVars, routerVars>>

InitCalc ==
  /\ SystemIdle
  /\ CacheIdle
  /\ DirectIdle
  /\ calc \in CalcCalls

NextCalc ==
  \/ CalculateOutputReturns
  \/ CalculatePathOutputReturns
  \/ checkSlippageWithLimitReturns

SpecCalc == InitCalc /\ [][NextCalc]_vars

\* ------------------------------------------------------------------------
\* The two-level cache: MemoryStore in front of RedisStore
\* ------------------------------------------------------------------------
\* records handed to StorePool: two addresses, one of them in two versions
CachePools ==
  { Pool("p1", "Uniswap V2", "a", "b", 5000, 5000),
    Pool("p1", "Uniswap V2", "a", "b", 4000, 5200),
    Pool("p5", "Uniswap V2", "a", "c", 100, 200) }

CacheAddresses == { p.address : p \in CachePools }

\* json.Marshal of a types.Pool: the fields under their JSON tags
Marshal(pool) ==
  << <<"address", pool.address>>, <<"exchange", pool.exchange>>,
     <<"token0", pool.token0>>, <<"token1", pool.token1>>,
     <<"reserve0", pool.reserve0>>, <<"reserve1", pool.reserve1>> >>

JSONField(data, tag) == (CHOOSE i \in 1..Len(data) : data[i][1] = tag)

\* json.Unmarshal into a new types.Pool
Unmarshal(data) ==
  Pool(data[JSONField(data, "address")][2], data[JSONField(data, "exchange")][2],
       data[JSONField(data, "token0")][2], data[JSONField(data, "token1")][2],
       data[JSONField(data, "reserve0")][2], data[JSONField(data, "reserve1")][2])

\* what the server answers to the commands of one RedisStore.StorePool
StoreOutcomes == {"ok", "set_failed", "token_pair_failed", "all_pools_failed"}

\* what the server answers to the GET of RedisStore.GetPool
GetOutcomes == {"ok", "nil", "io_error"}

\* RedisStore.StorePool: SET of the record, SADD to the token-pair set, SADD
\* to dex:all_pools; the first command that fails ends the call
RedisStorePool(redis, pool, outcome) ==
  IF outcome = "set_failed" THEN redis
  ELSE IF outcome = "token_pair_failed"
    THEN [redis EXCEPT !.keys = MapPut(@, pool.address, Marshal(pool))]
  ELSE IF outcome = "all_pools_failed"
    THEN [redis EXCEPT !.keys = MapPut(@, pool.address, Marshal(pool)),
                       !.tokenPairs = @ \cup {<<pool.token0, pool.token1, pool.address>>}]
  ELSE [redis EXCEPT !.keys = MapPut(@, pool.address, Marshal(pool)),
                     !.tokenPairs = @ \cup {<<pool.token0, pool.token1, pool.address>>},
                     !.allPools = @ \cup {pool.address}]

\* the error RedisStore.StorePool returns
RedisStoreError(outcome) == IF outcome = "ok" THEN "none" ELSE outcome

\* StorePool dropping the Redis error
StorePoolError_swallowed(redisErr) == "none"

\* TwoLevelCache.StorePool's result: the Redis error wrapped, or nil
StorePoolError(redisErr) ==
  IF redisErr # "none" THEN "failed to store pool in Redis" ELSE "none"

\* the error RedisStore.GetPool returns
RedisGetError(outcome) ==
  IF outcome = "nil" THEN "pool not found"
  ELSE IF outcome = "io_error" THEN "io_error"
  ELSE "none"

\* the answers the server can give to GET dex:pool:<address>
PossibleGets(redis, address) ==
  { o \in GetOutcomes : /\ o = "ok" => address \in DOMAIN redis.keys
                        /\ o = "nil" => address \notin DOMAIN redis.keys }

\* GetPool without its go statement
SpawnBackfill_none(pending, pool) == pending

\* the go statement of GetPool: one more goroutine holding the record
SpawnBackfill(pending, pool) == Append(pending, pool)

RemoveAt(s, i) == SubSeq(s, 1, i - 1) \o SubSeq(s, i + 1, Len(s))

LocalHitCounted(st) == [st EXCEPT !.LocalHits = @ + 1]

\* the local miss counted as a hit
LocalMissCounted_asHit(st) == [st EXCEPT !.LocalHits = @ + 1]

LocalMissCounted(st) == [st EXCEPT !.LocalMisses = @ + 1]

RedisHitCounted(st) == [st EXCEPT !.RedisHits = @ + 1]

RedisMissCounted(st) == [st EXCEPT !.RedisMisses = @ + 1]

Outside(c) == calls[c].pc \in {"none", "return"}

\* a client enters TwoLevelCache.StorePool
CallStorePool(c, pool) ==
  /\ Outside(c)
  /\ nCacheOps < MaxCacheOps
  /\ calls' = [calls EXCEPT ![c] =
                 [op |-> "StorePool", pc |-> "local", address |-> pool.address,
                  pool |-> pool, err |-> "none", remote |-> "none"]]
  /\ nCacheOps' = nCacheOps + 1
  /\ UNCHANGED <<localCache, redisCache, stats, backfill, nGetPool, warming>>
  /\ UNCHANGED <<storeVars, graphVars, searchVars, evalVars, quoteVars, calc, directVars, routerVars>>

\* tlc.localCache.StorePool: MemoryStore.StorePool always returns nil
StoreLocal(c) ==
  /\ calls[c].op = "StorePool"
  /\ calls[c].pc = "local"
  /\ localCache' = StorePoolInto(localCache, calls[c].pool)
  /\ calls' = [calls EXCEPT ![c].pc = "remote"]
  /\ UNCHANGED <<redisCache, stats, backfill, nCacheOps, nGetPool, warming>>
  /\ UNCHANGED <<storeVars, graphVars, searchVars, evalVars, quoteVars, calc, directVars, routerVars>>

\* tlc.redisCache.StorePool and the return of TwoLevelCache.StorePool
StoreRemoteAnswered(c, outcomes) ==
  /\ calls[c].op = "StorePool"
  /\ calls[c].pc = "remote"
  /\ \E outcome \in outcomes :
       /\ redisCache' = RedisStorePool(redisCache, calls[c].pool, outcome)
       /\ calls' = [calls EXCEPT ![c].pc = "return",
                                 ![c].remote = outcome,
                                 ![c].err = StorePoolError(RedisStoreError(outcome))]
  /\ UNCHANGED <<localCache, stats, backfill, nCacheOps, nGetPool, warming>>
  /\ UNCHANGED <<storeVars, graphVars, searchVars, evalVars, quoteVars, calc, directVars, routerVars>>

StoreRemote(c) == StoreRemoteAnswered(c, StoreOutcomes)

\* a client enters TwoLevelCache.GetPool
CallGetPool(c, address) ==
  /\ Outside(c)
  /\ nCacheOps < MaxCacheOps
  /\ calls' = [calls EXCEPT ![c] =
                 [op |-> "GetPool", pc |-> "local", address |-> address,
                  pool |-> NilPool, err |-> "none", remote |-> "none"]]
  /\ nCacheOps' = nCacheOps + 1
  /\ nGetPool' = nGetPool + 1
  /\ UNCHANGED <<localCache, redisCache, stats, backfill, warming>>
  /\ UNCHANGED <<storeVars, graphVars, searchVars, evalVars, quoteVars, calc, directVars, routerVars>>

\* tlc.localCache.GetPool
GetLocal(c) ==
  /\ calls[c].op = "GetPool"
  /\ calls[c].pc = "local"
  /\ calls' = IF calls[c].address \in DOMAIN localCache.pools
                THEN [calls EXCEPT ![c].pc = "local_hit",
                                   ![c].pool = localCache.pools[calls[c].address]]
                ELSE [calls EXCEPT ![c].pc = "local_miss"]
  /\ UNCHANGED <<localCache, redisCache, stats, backfill, nCacheOps, nGetPool, warming>>
  /\ UNCHANGED <<storeVars, graphVars, searchVars, evalVars, quoteVars, calc, directVars, routerVars>>

\* err == nil: LocalHits++ under the mutex, return the local record
LocalHitReturns(c) ==
  /\ calls[c].pc = "local_hit"
  /\ stats' = LocalHitCounted(stats)
  /\ calls' = [calls EXCEPT ![c].pc = "return"]
  /\ UNCHANGED <<localCache, redisCache, backfill, nCacheOps, nGetPool, warming>>
  /\ UNCHANGED <<storeVars, graphVars, searchVars, evalVars, quoteVars, calc, directVars, routerVars>>

\* LocalMisses++ under the mutex
CountLocalMiss(c) ==
  /\ calls[c].pc = "local_miss"
  /\ stats' = LocalMissCounted(stats)
  /\ calls' = [calls EXCEPT ![c].pc = "remote"]
  /\ UNCHANGED <<localCache, redisCache, backfill, nCacheOps, nGetPool, warming>>
  /\ UNCHANGED <<storeVars, graphVars, searchVars, evalVars, quoteVars, calc, directVars, routerVars>>

\* tlc.redisCache.GetPool
GetRemote(c) ==
  /\ calls[c].op = "GetPool"
  /\ calls[c].pc = "remote"
  /\ \E outcome \in PossibleGets(redisCache, calls[c].address) :
       calls' = IF outcome = "ok"
                  THEN [calls EXCEPT ![c].pc = "remote_hit",
                                     ![c].remote = outcome,
                                     ![c].pool = Unmarshal(redisCache.keys[calls[c].address])]
                  ELSE [calls EXCEPT ![c].pc = "remote_miss",
                                     ![c].remote = outcome,
                                     ![c].err = RedisGetError(outcome)]
  /\ UNCHANGED <<localCache, redisCache, stats, backfill, nCacheOps, nGetPool, warming>>
  /\ UNCHANGED <<storeVars, graphVars, searchVars, evalVars, quoteVars, calc, directVars, routerVars>>

\* err != nil: RedisMisses++ under the mutex, return nil and the error
RemoteMissReturns(c) ==
  /\ calls[c].pc = "remote_miss"
  /\ stats' = RedisMissCounted(stats)
  /\ calls' = [calls EXCEPT ![c].pc = "return"]
  /\ UNCHANGED <<localCache, redisCache, backfill, nCacheOps, nGetPool, warming>>
  /\ UNCHANGED <<storeVars, graphVars, searchVars, evalVars, quoteVars, calc, directVars, routerVars>>

\* RedisHits++ under the mutex
CountRemoteHit(c) ==
  /\ calls[c].pc = "remote_hit"
  /\ stats' = RedisHitCounted(stats)
  /\ calls' = [calls EXCEPT ![c].pc = "backfill"]
  /\ UNCHANGED <<localCache, redisCache, backfill, nCacheOps, nGetPool, warming>>
  /\ UNCHANGED <<storeVars, graphVars, searchVars, evalVars, quoteVars, calc, directVars, routerVars>>

\* go func() { tlc.localCache.StorePool(...) }() and the return of the record
RemoteHitReturns(c) ==
  /\ calls[c].pc = "backfill"
  /\ backfill' = SpawnBackfill(backfill, calls[c].pool)
  /\ calls' = [calls EXCEPT ![c].pc = "return"]
  /\ UNCHANGED <<localCache, redisCache, stats, nCacheOps, nGetPool, warming>>
  /\ UNCHANGED <<storeVars, graphVars, searchVars, evalVars, quoteVars, calc, directVars, routerVars>>

\* one of the started goroutines runs: the record goes into the MemoryStore
Backfill ==
  /\ \E i \in 1..Len(backfill) :
       /\ localCache' = StorePoolInto(localCache, backfill[i])
       /\ backfill' = RemoveAt(backfill, i)
  /\ UNCHANGED <<redisCache, stats, calls, nCacheOps, nGetPool, warming>>
  /\ UNCHANGED <<storeVars, graphVars, searchVars, evalVars, quoteVars, calc, directVars, routerVars>>

RECURSIVE RedisHolding(_)
\* the server after successful StorePool calls for the records of a set
RedisHolding(ps) ==
  IF ps = {} THEN EmptyRedis
  ELSE LET p == CHOOSE q \in ps : TRUE
       IN  RedisStorePool(RedisHolding(ps \ {p}), p, "ok")

\* what the server may hold when the process starts: at most one record per
\* address, written by an earlier run
InitialRedis ==
  { RedisHolding(ps) : ps \in { qs \in SUBSET CachePools :
                                  \A p, q \in qs : p.address = q.address => p = q } }

InitCache ==
  /\ SystemIdle
  /\ CalcIdle
  /\ DirectIdle
  /\ FreshCache
  /\ redisCache \in InitialRedis

NextCache ==
  \/ \E c \in CacheClients, pool \in CachePools : CallStorePool(c, pool)
  \/ \E c \in CacheClients : StoreLocal(c)
  \/ \E c \in CacheClients : StoreRemote(c)
  \/ \E c \in CacheClients, address \in CacheAddresses : CallGetPool(c, address)
  \/ \E c \in CacheClients : GetLocal(c)
  \/ \E c \in CacheClients : LocalHitReturns(c)
  \/ \E c \in CacheClients : CountLocalMiss(c)
  \/ \E c \in CacheClients : GetRemote(c)
  \/ \E c \in CacheClients : RemoteMissReturns(c)
  \/ \E c \in CacheClients : CountRemoteHit(c)
  \/ \E c \in CacheClients : RemoteHitReturns(c)
  \/ Backfill

SpecCache == InitCache /\ [][NextCache]_vars

\* the cache on a server that executes every command of StorePool
NextCacheWritten ==
  \/ \E c \in CacheClients, pool \in CachePools : CallStorePool(c, pool)
  \/ \E c \in CacheClients : StoreLocal(c)
  \/ \E c \in CacheClients : StoreRemoteAnswered(c, {"ok"})
  \/ \E c \in CacheClients, address \in CacheAddresses : CallGetPool(c, address)
  \/ \E c \in CacheClients : GetLocal(c)
  \/ \E c \in CacheClients : LocalHitReturns(c)
  \/ \E c \in CacheClients : CountLocalMiss(c)
  \/ \E c \in CacheClients : GetRemote(c)
  \/ \E c \in CacheClients : RemoteMissReturns(c)
  \/ \E c \in CacheClients : CountRemoteHit(c)
  \/ \E c \in CacheClients : RemoteHitReturns(c)
  \/ Backfill

SpecCacheWritten == InitCache /\ [][NextCacheWritten]_vars

\* the same cache with scheduling: the server starts empty or holding one
\* record per address, the clients issue at most MaxLiveCalls calls, and
\* every started goroutine eventually runs
InitCacheLive ==
  /\ SystemIdle
  /\ CalcIdle
  /\ DirectIdle
  /\ FreshCache
  /\ redisCache \in { EmptyRedis,
                      RedisHolding({ p \in CachePools : p.reserve0 # 4000 }) }

NextCacheLive ==
  \/ \E c \in CacheClients, pool \in CachePools :
       nCacheOps < MaxLiveCalls /\ CallStorePool(c, pool)
  \/ \E c \in CacheClients : StoreLocal(c)
  \/ \E c \in CacheClients : StoreRemote(c)
  \/ \E c \in CacheClients, address \in CacheAddresses :
       nCacheOps < MaxLiveCalls /\ CallGetPool(c, address)
  \/ \E c \in CacheClients : GetLocal(c)
  \/ \E c \in CacheClients : LocalHitReturns(c)
  \/ \E c \in CacheClients : CountLocalMiss(c)
  \/ \E c \in CacheClients : GetRemote(c)
  \/ \E c \in CacheClients : RemoteMissReturns(c)
  \/ \E c \in CacheClients : CountRemoteHit(c)
  \/ \E c \in CacheClients : RemoteHitReturns(c)
  \/ Backfill

SpecCacheLive == InitCacheLive /\ [][NextCacheLive]_vars /\ WF_vars(Backfill)

\* ------------------------------------------------------------------------
\* The MemoryStore called directly
\* ------------------------------------------------------------------------
\* pools handed to StorePool: an address stored again with another token
\* pair, mixed-case tokens, a pool of one token, nil and negative reserves
StoreInputs ==
  { Pool("s1", "Uniswap V2", "a", "b", 1000, 2000),
    Pool("s1", "Uniswap V2", "a", "c", 1000, 2000),
    Pool("s2", "SushiSwap",  "b", "a", 500, 500),
    Pool("s2", "SushiSwap",  "A", "B", 500, 600),
    Pool("s3", "Uniswap V2", "a", "a", 700, 700),
    Pool("s3", "Uniswap V2", "b", "c", NilReserve, -5) }

QueryTokens == {"a", "b", "c", "A"}

QueryAddresses == { p.address : p \in StoreInputs } \cup {"s9"}

TheStore == [pools |-> storePools, tokenPairs |-> tokenPairs]

\* a GetPool that reports a missing address without an error
GetPool_silent(st, address) ==
  [pool |-> IF address \in DOMAIN st.pools THEN st.pools[address] ELSE NilPool,
   err |-> "none"]

\* MemoryStore.GetPool
GetPool(st, address) ==
  IF address \in DOMAIN st.pools
    THEN [pool |-> st.pools[address], err |-> "none"]
    ELSE [pool |-> NilPool, err |-> "pool not found"]

\* MemoryStore.GetPoolsByTokens: the records of the addresses listed under
\* tokenPairs[tokenA][tokenB], in list order
GetPoolsByTokens(st, tokenA, tokenB) ==
  LET poolAddrs == EdgeList(st.tokenPairs, ToLower(tokenA), ToLower(tokenB))
      present == SelectSeq(poolAddrs, LAMBDA addr : addr \in DOMAIN st.pools)
  IN  [i \in 1..Len(present) |-> st.pools[present[i]]]

\* MemoryStore.GetAllPools: the records in the order the map iteration gives
GetAllPools(st) == Perms({ st.pools[a] : a \in DOMAIN st.pools })

StorePoolReturns(pool) ==
  /\ Len(storeLog) < MaxStoreCalls
  /\ LET st == StorePoolInto(TheStore, pool)
     IN  /\ storePools' = st.pools
         /\ tokenPairs' = st.tokenPairs
  /\ storeLog' = Append(storeLog, pool)
  /\ storeCall' = [pc |-> "return", fn |-> "StorePool", pool |-> pool, err |-> "none"]
  /\ UNCHANGED <<nStore, graphVars, searchVars, evalVars, quoteVars, calc, cacheVars,
                 parked, running, overlapped, routerVars>>

GetPoolReturns(address) ==
  /\ storeCall' = [pc |-> "return", fn |-> "GetPool", address |-> address,
                   pool |-> GetPool(TheStore, address).pool,
                   err |-> GetPool(TheStore, address).err]
  /\ UNCHANGED <<storeVars, storeLog, graphVars, searchVars, evalVars, quoteVars, calc, cacheVars,
                 parked, running, overlapped, routerVars>>

GetPoolsByTokensReturns(tokenA, tokenB) ==
  /\ storeCall' = [pc |-> "return", fn |-> "GetPoolsByTokens",
                   tokenA |-> tokenA, tokenB |-> tokenB,
                   pools |-> GetPoolsByTokens(TheStore, tokenA, tokenB), err |-> "none"]
  /\ UNCHANGED <<storeVars, storeLog, graphVars, searchVars, evalVars, quoteVars, calc, cacheVars,
                 parked, running, overlapped, routerVars>>

GetAllPoolsReturns ==
  /\ \E pools \in GetAllPools(TheStore) :
       storeCall' = [pc |-> "return", fn |-> "GetAllPools", pools |-> pools, err |-> "none"]
  /\ UNCHANGED <<storeVars, storeLog, graphVars, searchVars, evalVars, quoteVars, calc, cacheVars,
                 parked, running, overlapped, routerVars>>

InitStore == SystemIdle /\ UnitsIdle

NextStore ==
  \/ \E pool \in StoreInputs : StorePoolReturns(pool)
  \/ \E address \in QueryAddresses : GetPoolReturns(address)
  \/ \E tokenA \in QueryTokens, tokenB \in QueryTokens : GetPoolsByTokensReturns(tokenA, tokenB)
  \/ GetAllPoolsReturns

SpecStore == InitStore /\ [][NextStore]_vars

\* ------------------------------------------------------------------------
\* RefreshGraph on a store that no one writes
\* ------------------------------------------------------------------------
\* what the store holds: pools sharing an edge in both orientations, a pool
\* with addresses in upper case, a pool of one token
RefreshCatalogs ==
  { << Pool("p1", "Uniswap V2",  "a", "b", 5000, 5000),
       Pool("p2", "SushiSwap",   "a", "b", 3000, 3000) >>,
    << Pool("p4", "SushiSwap",   "a", "c", 5000, 2500),
       Pool("p7", "PancakeSwap", "c", "a", 5300, 5300),
       Pool("p3", "Uniswap V2",  "b", "c", 2400, 2400) >>,
    << Pool("u1", "Uniswap V2",  "A", "B", 3000, 3000),
       Pool("p1", "Uniswap V2",  "a", "b", 5000, 5000),
       Pool("l1", "SushiSwap",   "b", "b", 100, 100) >>,
    << Pool("p8", "SushiSwap",   "b", "c", 2500, 5000) >> }

\* the service starts on one of the catalogs: the constructor's RefreshGraph
\* runs first, the ticker's and an explicit one follow
InitRefresh ==
  /\ sys = "init"
  /\ \E cat \in RefreshCatalogs :
       LET st == StoreAllFrom(EmptyStore, cat, 1)
       IN  /\ storePools = st.pools
           /\ tokenPairs = st.tokenPairs
  /\ nStore = 0
  /\ snaps = << >>
  /\ snapSrc = << >>
  /\ graph = 0
  /\ published = {}
  /\ rf = [r \in Refreshers |-> IdleRefresh]
  /\ nRefresh = 0
  /\ UnitsIdle
  /\ QuoteIdle
  /\ RouterBuilt

NextRefresh ==
  \/ \E r \in Refreshers : RefreshRead(r)
  \/ \E r \in Refreshers : RefreshBuild(r)
  \/ \E r \in Refreshers : RefreshPublish(r)

SpecRefresh == InitRefresh /\ [][NextRefresh]_vars

\* ------------------------------------------------------------------------
\* The service on a two-level cache (main.go): GetAllPools and its warming
\* ------------------------------------------------------------------------
\* RedisStore.GetAllPools: the members of dex:all_pools whose key exists,
\* unmarshalled into new records, in the order of the range over cmds
RedisGetAllPools(redis) ==
  Perms({ Unmarshal(redis.keys[a]) : a \in redis.allPools \cap DOMAIN redis.keys })

\* go tlc.warmLocalCache(pools); snap names the snapshot under construction
\* that holds the same records, 0 when the caller builds none
WarmSpawned(w, pools, snap) ==
  IF Len(pools) = 0 THEN w ELSE Append(w, [pools |-> pools, snap |-> snap])

\* TwoLevelCache.GetAllPools called by GetBestQuote: the error is logged,
\* the pools are counted for the log after the warming goroutine has started
QuoteStartOverCache(requests) ==
  /\ GetBestQuoteEnters(requests)
  /\ \/ \E pools \in RedisGetAllPools(redisCache) :
          warming' = WarmSpawned(warming, pools, 0)
     \/ warming' = warming
  /\ UNCHANGED <<storeVars, graphVars, calc, directVars, routerVars, localCache, redisCache,
                 stats, calls, backfill, nCacheOps, nGetPool>>

\* the record as MemoryStore.StorePool leaves it: the two addresses are
\* assigned their lowercase form, nil reserves are assigned 0
WrittenRecord(pool) == StorePoolInto(EmptyStore, pool).pools[pool.address]

\* the fields of the caller's record that MemoryStore.StorePool assigns
FieldsWritten(pool) ==
  {"Token0.Address", "Token1.Address"}
    \cup (IF pool.reserve0 = NilReserve THEN {"Reserve0"} ELSE {})
    \cup (IF pool.reserve1 = NilReserve THEN {"Reserve1"} ELSE {})

\* a list of pointers after the record of one address was written in place
ListAfterWrite(ps, pool) ==
  [k \in 1..Len(ps) |-> IF ps[k].address = pool.address THEN WrittenRecord(pool) ELSE ps[k]]

\* a snapshot whose poolMap points to the record that was written in place
SnapshotAfterWrite(gd, pool) ==
  [gd EXCEPT !.poolMap =
     [a \in DOMAIN gd.poolMap |->
        [b \in DOMAIN gd.poolMap[a] |-> ListAfterWrite(gd.poolMap[a][b], pool)]]]

\* one iteration of warmLocalCache: tlc.localCache.StorePool(bgCtx, pool),
\* on the record GetAllPools also returned to its caller; the snapshot built
\* from that result and the refresher still building it hold the same record
WarmLocalCache ==
  /\ \E i \in 1..Len(warming) :
       LET pool == Head(warming[i].pools)
           id == warming[i].snap
       IN  /\ localCache' = StorePoolInto(localCache, pool)
           /\ warming' = IF Len(warming[i].pools) = 1
                           THEN RemoveAt(warming, i)
                           ELSE [warming EXCEPT ![i].pools = ListAfterWrite(Tail(@), pool)]
           /\ snaps' = IF id = 0 THEN snaps
                       ELSE [snaps EXCEPT ![id] = SnapshotAfterWrite(@, pool)]
           /\ rf' = [r \in Refreshers |->
                       IF id # 0 /\ rf[r].build = id
                         THEN [rf[r] EXCEPT !.allPools = ListAfterWrite(@, pool)]
                         ELSE rf[r]]
  /\ UNCHANGED <<redisCache, stats, calls, backfill, nCacheOps, nGetPool>>
  /\ UNCHANGED <<storeVars, snapSrc, graph, published, nRefresh, sys,
                 searchVars, evalVars, quoteVars, calc, directVars, routerVars>>

\* the service runs: Redis holds a catalog, the graph was built from it, the
\* local tier is empty (new process) or holds what StorePool wrote to it
InitQuoteCache ==
  /\ sys = "running"
  /\ storePools = EmptyStore.pools
  /\ tokenPairs = EmptyStore.tokenPairs
  /\ nStore = 0
  /\ \E cat \in InitialCatalogs :
       /\ redisCache = RedisHolding(Range(cat))
       /\ localCache \in {EmptyStore, StoreAllFrom(EmptyStore, cat, 1)}
       /\ snaps = <<BuildGraph(cat)>>
       /\ snapSrc = <<Range(cat)>>
  /\ graph = 1
  /\ published = {1}
  /\ rf = [r \in Refreshers |-> IdleRefresh]
  /\ nRefresh = 0
  /\ stats = ZeroStats
  /\ calls = [c \in CacheClients |-> NoCacheCall]
  /\ backfill = << >>
  /\ nCacheOps = 0
  /\ nGetPool = 0
  /\ warming = << >>
  /\ CalcIdle
  /\ DirectIdle
  /\ QuoteIdle
  /\ RouterBuilt

NextQuoteCache ==
  \/ QuoteStartOverCache(SystemRequests)
  \/ FindLoad
  \/ FindSeed
  \/ FindPop
  \/ FindDone
  \/ \E i \in 1..SmallMaxPaths : WorkerAcquire(i)
  \/ \E i \in 1..SmallMaxPaths : WorkerFinish(i)
  \/ QuoteCollect
  \/ WarmLocalCache

SpecQuoteCache == InitQuoteCache /\ [][NextQuoteCache]_vars

\* RefreshGraph on the two-level cache: pf.cache.GetAllPools reads Redis and
\* starts the warming goroutine on the records it returns
RefreshReadOverCache(r) ==
  /\ rf[r].pc = "idle"
  /\ IF r = "ctor" THEN sys = "init" ELSE sys = "running" /\ nRefresh < MaxRefreshes
  /\ nRefresh' = IF r = "ctor" THEN nRefresh ELSE nRefresh + 1
  /\ \/ \E order \in RedisGetAllPools(redisCache) :
          /\ snaps' = Append(snaps, EmptyGraph)
          /\ snapSrc' = Append(snapSrc, Range(order))
          /\ rf' = [rf EXCEPT ![r] = [pc |-> "build", allPools |-> order, i |-> 1,
                                      build |-> Len(snaps) + 1, err |-> "none"]]
          /\ warming' = WarmSpawned(warming, order, Len(snaps) + 1)
          /\ UNCHANGED <<graph, sys>>
     \/ /\ graph' = GraphAfterFailedRefresh(graph)
        /\ sys' = IF r = "ctor" THEN "fatal" ELSE sys
        /\ rf' = [rf EXCEPT ![r].err = "store_unavailable"]
        /\ UNCHANGED <<snaps, snapSrc, warming>>
  /\ UNCHANGED <<published, storeVars, searchVars, evalVars, quoteVars, calc, directVars, routerVars,
                 localCache, redisCache, stats, calls, backfill, nCacheOps, nGetPool>>

\* records Redis may hold: written through the two-level cache (lowercase
\* addresses) or by RedisStore.StorePool as given
RedisCatalogs ==
  { { Pool("p4", "SushiSwap",  "a", "c", 5000, 2500) },
    { Pool("p1", "Uniswap V2", "a", "b", 5000, 5000),
      Pool("p8", "SushiSwap",  "b", "c", 2500, 5000) },
    { Pool("u1", "Uniswap V2", "A", "B", 3000, 3000),
      Pool("p3", "Uniswap V2", "b", "c", 2400, 2400) } }

\* a new process on a Redis server that holds a catalog
InitRefreshCache ==
  /\ sys = "init"
  /\ storePools = EmptyStore.pools
  /\ tokenPairs = EmptyStore.tokenPairs
  /\ nStore = 0
  /\ snaps = << >>
  /\ snapSrc = << >>
  /\ graph = 0
  /\ published = {}
  /\ rf = [r \in Refreshers |-> IdleRefresh]
  /\ nRefresh = 0
  /\ FreshCache
  /\ redisCache \in { RedisHolding(S) : S \in RedisCatalogs }
  /\ CalcIdle
  /\ DirectIdle
  /\ QuoteIdle
  /\ RouterBuilt

NextRefreshCache ==
  \/ \E r \in Refreshers : RefreshReadOverCache(r)
  \/ \E r \in Refreshers : RefreshBuild(r)
  \/ \E r \in Refreshers : RefreshPublish(r)
  \/ WarmLocalCache

SpecRefreshCache == InitRefreshCache /\ [][NextRefreshCache]_vars

\* ------------------------------------------------------------------------
\* Quotes issued in parallel (TestConcurrentQuotes): one router on a
\* MemoryStore, one goroutine per request
\* ------------------------------------------------------------------------
\* what a goroutine in GetBestQuote holds on its stack and in the objects
\* the call allocated
CurrentQuote ==
  [g |-> g, pq |-> pq, bestAmountPerToken |-> bestAmountPerToken, bestPaths |-> bestPaths,
   found |-> found, workers |-> workers, sem |-> sem, resultsChan |-> resultsChan,
   errorChan |-> errorChan, qpc |-> qpc, req |-> req, maxPaths |-> maxPaths,
   gAtIssue |-> gAtIssue, nQuote |-> nQuote, response |-> response, cancelled |-> cancelled]

\* a goroutine that has not called GetBestQuote yet
NoQuote ==
  [g |-> 0, pq |-> << >>, bestAmountPerToken |-> EmptyMap, bestPaths |-> << >>,
   found |-> NoFound, workers |-> << >>, sem |-> 0, resultsChan |-> << >>,
   errorChan |-> << >>, qpc |-> "idle", req |-> NoRequest, maxPaths |-> 0,
   gAtIssue |-> 0, nQuote |-> 0, response |-> NoResponse, cancelled |-> FALSE]

\* variant: the best-amount map is a field of the PathFinder, shared by all
\* searches
Resumed_sharedBest(quote) == [quote EXCEPT !.bestAmountPerToken = bestAmountPerToken]

\* what a goroutine finds when it is scheduled again: pq,
\* bestAmountPerToken, bestPaths, sem and the channels are made per call
Resumed(quote) == quote

InFlight(quote) == quote.qpc \notin {"idle", "done"}

\* the request goroutine idx issues
ParallelRequest(idx) ==
  LET requests == << [tokenIn |-> "a", tokenOut |-> "c", amountIn |-> 100, maxHops |-> 3],
                     [tokenIn |-> "a", tokenOut |-> "b", amountIn |-> 50,  maxHops |-> 0],
                     [tokenIn |-> "C", tokenOut |-> "A", amountIn |-> 20,  maxHops |-> 2] >>
  IN  requests[((idx - 1) % Len(requests)) + 1]

\* the runtime schedules goroutine i instead of the running one
GoroutineResumes(i) ==
  /\ running # 0
  /\ i \in 1..Len(parked)
  /\ i # running
  /\ LET quote == Resumed(parked[i])
     IN  /\ g' = quote.g
         /\ pq' = quote.pq
         /\ bestAmountPerToken' = quote.bestAmountPerToken
         /\ bestPaths' = quote.bestPaths
         /\ found' = quote.found
         /\ workers' = quote.workers
         /\ sem' = quote.sem
         /\ resultsChan' = quote.resultsChan
         /\ errorChan' = quote.errorChan
         /\ qpc' = quote.qpc
         /\ req' = quote.req
         /\ maxPaths' = quote.maxPaths
         /\ gAtIssue' = quote.gAtIssue
         /\ nQuote' = quote.nQuote
         /\ response' = quote.response
         /\ cancelled' = quote.cancelled
  /\ parked' = [parked EXCEPT ![running] = CurrentQuote, ![i] = NoQuote]
  /\ running' = i
  /\ overlapped' = (overlapped \/ (InFlight(CurrentQuote) /\ InFlight(parked[i])))
  /\ UNCHANGED <<storeVars, graphVars, calc, cacheVars, storeCall, storeLog, routerVars>>

\* `resp, err := router.GetBestQuote(ctx, &request)` in goroutine idx
ParallelQuoteStart ==
  /\ running # 0
  /\ QuoteStartFrom({ParallelRequest(running)})

\* the store after InitMockPools and the snapshot NewRouter loaded
ParallelCatalogs ==
  { <<CHOOSE p \in PoolCatalog : p.address = "p1",
      CHOOSE p \in PoolCatalog : p.address = "p8",
      CHOOSE p \in PoolCatalog : p.address = "p4">>,
    <<CHOOSE p \in PoolCatalog : p.address = "p7",
      CHOOSE p \in PoolCatalog : p.address = "p2">> }

InitParallel ==
  /\ sys = "running"
  /\ \E cat \in ParallelCatalogs :
       LET st == StoreAllFrom(EmptyStore, cat, 1)
       IN  /\ storePools = st.pools
           /\ tokenPairs = st.tokenPairs
           /\ snaps = <<BuildGraph(cat)>>
           /\ snapSrc = <<Range(cat)>>
  /\ nStore = 0
  /\ graph = 1
  /\ published = {1}
  /\ rf = [r \in Refreshers |-> IdleRefresh]
  /\ nRefresh = 0
  /\ CalcIdle
  /\ CacheIdle
  /\ storeCall = NoCall
  /\ storeLog = << >>
  /\ parked = [i \in 1..MaxParallel |-> NoQuote]
  /\ running = 1
  /\ overlapped = FALSE
  /\ QuoteIdle
  /\ RouterBuilt

NextParallel ==
  \/ ParallelQuoteStart
  \/ \E i \in 1..MaxParallel : GoroutineResumes(i)
  \/ FindLoad
  \/ FindSeed
  \/ FindPop
  \/ FindDone
  \/ \E i \in 1..SmallMaxPaths : WorkerAcquire(i)
  \/ \E i \in 1..SmallMaxPaths : WorkerFinish(i)
  \/ QuoteCollect
  \/ StorePool

SpecParallel == InitParallel /\ [][NextParallel]_vars

\* ------------------------------------------------------------------------
\* GetPoolsByTokens on the three stores
\* ------------------------------------------------------------------------
\* SMEMBERS dex:token_pair:<t0>:<t1>
RedisSMembers(redis, t0, t1) ==
  { x[3] : x \in { y \in redis.tokenPairs : y[1] = t0 /\ y[2] = t1 } }

\* RedisStore.GetPoolsByTokens: the members of the keys of both orderings,
\* built from the arguments as given, then one GetPool per address
RedisGetPoolsByTokens(redis, tokenA, tokenB) ==
  { LET poolAddrs == first \o second
        present == SelectSeq(poolAddrs, LAMBDA addr : addr \in DOMAIN redis.keys)
    IN  [i \in 1..Len(present) |-> Unmarshal(redis.keys[present[i]])] :
    first \in Perms(RedisSMembers(redis, tokenA, tokenB)),
    second \in Perms(RedisSMembers(redis, tokenB, tokenA)) }

RedisGetPoolsByTokensReturns(tokenA, tokenB) ==
  /\ \E pools \in RedisGetPoolsByTokens(redisCache, tokenA, tokenB) :
       storeCall' = [pc |-> "return", fn |-> "RedisStore.GetPoolsByTokens",
                     tokenA |-> tokenA, tokenB |-> tokenB, pools |-> pools, err |-> "none"]
  /\ UNCHANGED <<storeVars, storeLog, graphVars, searchVars, evalVars, quoteVars, calc, cacheVars,
                 parked, running, overlapped, routerVars>>

\* TwoLevelCache.GetPoolsByTokens: the call is handed to the Redis store
CacheGetPoolsByTokensReturns(tokenA, tokenB) ==
  /\ \E pools \in RedisGetPoolsByTokens(redisCache, tokenA, tokenB) :
       storeCall' = [pc |-> "return", fn |-> "TwoLevelCache.GetPoolsByTokens",
                     tokenA |-> tokenA, tokenB |-> tokenB, pools |-> pools, err |-> "none"]
  /\ UNCHANGED <<storeVars, storeLog, graphVars, searchVars, evalVars, quoteVars, calc, cacheVars,
                 parked, running, overlapped, routerVars>>

\* pools stored before the queries
ByTokensCatalogs ==
  { <<Pool("p1", "Uniswap V2", "a", "b", 5000, 5000)>>,
    <<Pool("p4", "SushiSwap",  "a", "c", 5000, 2500),
      Pool("p7", "PancakeSwap", "c", "a", 5300, 5300)>>,
    <<Pool("u1", "Uniswap V2", "A", "B", 3000, 3000),
      Pool("p2", "SushiSwap",  "a", "b", 3000, 3000)>> }

\* the same catalog stored into a MemoryStore and into the remote store,
\* there directly (records as given) or through the two-level cache (records
\* as the local tier left them)
InitByTokens ==
  /\ sys = "running"
  /\ \E cat \in ByTokensCatalogs :
       LET st == StoreAllFrom(EmptyStore, cat, 1)
       IN  /\ storePools = st.pools
           /\ tokenPairs = st.tokenPairs
           /\ FreshCache
           /\ redisCache \in { RedisHolding(Range(cat)),
                               RedisHolding({ WrittenRecord(p) : p \in Range(cat) }) }
  /\ nStore = 0
  /\ snaps = << >>
  /\ snapSrc = << >>
  /\ graph = 0
  /\ published = {}
  /\ rf = [r \in Refreshers |-> IdleRefresh]
  /\ nRefresh = MaxRefreshes
  /\ QuoteIdle
  /\ RouterBuilt
  /\ CalcIdle
  /\ DirectIdle

QuerySpellings == {"a", "A", "b", "B", "c", "C"}

NextByTokens ==
  \/ \E tokenA \in QuerySpellings, tokenB \in QuerySpellings :
       GetPoolsByTokensReturns(tokenA, tokenB)
  \/ \E tokenA \in QuerySpellings, tokenB \in QuerySpellings :
       RedisGetPoolsByTokensReturns(tokenA, tokenB)
  \/ \E tokenA \in QuerySpellings, tokenB \in QuerySpellings :
       CacheGetPoolsByTokensReturns(tokenA, tokenB)

SpecByTokens == InitByTokens /\ [][NextByTokens]_vars

\* ------------------------------------------------------------------------
\* Token records on the two-level cache
\* ------------------------------------------------------------------------
Token(address, symbol, decimals) ==
  [address |-> address, symbol |-> symbol, decimals |-> decimals]

\* the token GetToken makes up for an address
FallbackToken(address) == Token(address, "UNKNOWN", 18)

\* json.Marshal of a types.Token and json.Unmarshal into a new one
MarshalToken(token) ==
  << <<"address", token.address>>, <<"symbol", token.symbol>>,
     <<"decimals", token.decimals>> >>

UnmarshalToken(data) ==
  Token(data[JSONField(data, "address")][2], data[JSONField(data, "symbol")][2],
        data[JSONField(data, "decimals")][2])

\* MemoryStore.StoreToken: nothing is kept, the call succeeds
MemoryStoreToken(st, token) == st

\* MemoryStore.GetToken: the made-up token and no error, for every address
MemoryGetToken(st, address) == [token |-> FallbackToken(address), err |-> "none"]

\* RedisStore.StoreToken: SET dex:token:<address>
RedisStoreToken(redis, token, outcome) ==
  IF outcome = "ok" THEN [redis EXCEPT !.tokens = MapPut(@, token.address, MarshalToken(token))]
  ELSE redis

\* RedisStore.GetToken: the stored token, the made-up one on redis.Nil, the
\* error of any other failure
RedisGetToken(redis, address, outcome) ==
  IF outcome = "io_error" THEN [token |-> FallbackToken(""), err |-> "io_error"]
  ELSE IF address \in DOMAIN redis.tokens
    THEN [token |-> UnmarshalToken(redis.tokens[address]), err |-> "none"]
  ELSE [token |-> FallbackToken(address), err |-> "none"]

\* TwoLevelCache.GetToken: the local tier's answer unless it is an error
CacheGetToken(local, redis, address, outcome) ==
  IF MemoryGetToken(local, address).err = "none" THEN MemoryGetToken(local, address)
  ELSE RedisGetToken(redis, address, outcome)

TokenInputs ==
  { Token("a", "WETH", 18), Token("a", "WETH9", 18), Token("b", "USDC", 6),
    Token("c", "UNKNOWN", 18), Token("d", "DAI", 18) }

TokenAddresses == {"a", "b", "c", "d"}

\* TwoLevelCache.StoreToken: both tiers, the Redis result is returned
CacheStoreTokenReturns(token) ==
  /\ \E outcome \in {"ok", "set_failed"} :
       /\ localCache' = MemoryStoreToken(localCache, token)
       /\ redisCache' = RedisStoreToken(redisCache, token, outcome)
       /\ storeCall' = [pc |-> "return", fn |-> "TwoLevelCache.StoreToken", token |-> token,
                        err |-> IF outcome = "ok" THEN "none" ELSE outcome]
  /\ UNCHANGED <<stats, calls, backfill, nCacheOps, nGetPool, warming>>
  /\ UNCHANGED <<storeVars, storeLog, graphVars, searchVars, evalVars, quoteVars, calc,
                 parked, running, overlapped, routerVars>>

CacheGetTokenReturns(address) ==
  /\ \E outcome \in {"ok", "io_error"} :
       LET r == CacheGetToken(localCache, redisCache, address, outcome)
       IN  storeCall' = [pc |-> "return", fn |-> "TwoLevelCache.GetToken",
                         address |-> address, token |-> r.token, err |-> r.err]
  /\ UNCHANGED <<storeVars, storeLog, graphVars, searchVars, evalVars, quoteVars, calc, cacheVars,
                 parked, running, overlapped, routerVars>>

\* a new process on a Redis server that holds no token or one from an
\* earlier run
InitToken ==
  /\ SystemIdle
  /\ CalcIdle
  /\ DirectIdle
  /\ FreshCache
  /\ redisCache \in { EmptyRedis, RedisStoreToken(EmptyRedis, Token("b", "USDC", 6), "ok") }

NextToken ==
  \/ \E token \in TokenInputs : CacheStoreTokenReturns(token)
  \/ \E address \in TokenAddresses : CacheGetTokenReturns(address)

SpecToken == InitToken /\ [][NextToken]_vars

\* ------------------------------------------------------------------------
\* GetBestQuote on a router of any configured capacity
\* ------------------------------------------------------------------------
\* config.Load: MAX_CONCURRENT_PATHS is taken as given whenever it parses,
\* zero included; NewRouter stores it without validation
ConfiguredWidths == 0..MaxConcurrentPaths

InitQuoteLive ==
  /\ sys = "running"
  /\ \E cat \in ParallelCatalogs :
       LET st == StoreAllFrom(EmptyStore, cat, 1)
       IN  /\ storePools = st.pools
           /\ tokenPairs = st.tokenPairs
           /\ snaps = <<BuildGraph(cat)>>
           /\ snapSrc = <<Range(cat)>>
  /\ nStore = 0
  /\ graph = 1
  /\ published = {1}
  /\ rf = [r \in Refreshers |-> IdleRefresh]
  /\ nRefresh = 0
  /\ UnitsIdle
  /\ QuoteIdle
  /\ maxConcurrent \in ConfiguredWidths

\* the steps of the goroutines of one GetBestQuote call: the caller's own
\* and the workers' of calculatePathsConcurrently
QuoteStep ==
  \/ FindLoad
  \/ FindSeed
  \/ FindPop
  \/ FindDone
  \/ \E i \in 1..SmallMaxPaths : WorkerAcquire(i)
  \/ \E i \in 1..SmallMaxPaths : WorkerFinish(i)
  \/ QuoteCollect

NextQuoteLive ==
  \/ QuoteStartFrom(Requests)
  \/ QuoteStep
  \/ Cancel

\* the Go scheduler runs every goroutine that is able to take a step
SpecQuoteLive == InitQuoteLive /\ [][NextQuoteLive]_vars /\ WF_vars(QuoteStep)

\* ------------------------------------------------------------------------
\* RefreshGraph calls that overlap: the ticker's and an explicit one
\* ------------------------------------------------------------------------
\* the service starts on a catalog; pools are stored while the ticker's
\* RefreshGraph and an explicit one run, each at its own pace
NextOverlap ==
  \/ StorePool
  \/ \E r \in Refreshers : RefreshReadWithin(r, MaxOverlapping)
  \/ \E r \in Refreshers : RefreshBuild(r)
  \/ \E r \in Refreshers : RefreshPublish(r)

SpecOverlap == Init /\ [][NextOverlap]_vars

\* ------------------------------------------------------------------------
\* The background refresher on a store that stays available
\* ------------------------------------------------------------------------
\* GetAllPools answers: the read of RefreshGraph succeeds
ReadSucceeds(r) == RefreshReadWithin(r, MaxTicks) /\ rf'[r].pc = "build"

\* the collector stores a pool while the ticker has a tick to come
StorePoolBeforeTick == nRefresh < MaxTicks /\ StorePool

\* NewPathFinder's refresh, then runGraphRefresher: one RefreshGraph per
\* tick, each returning before the next tick is taken
BackgroundRefresh ==
  \/ \E r \in {"ctor", "ticker"} : ReadSucceeds(r)
  \/ \E r \in {"ctor", "ticker"} : RefreshBuild(r)
  \/ \E r \in {"ctor", "ticker"} : RefreshPublish(r)

NextTicker ==
  \/ StorePoolBeforeTick
  \/ BackgroundRefresh

\* the ticker keeps ticking and the goroutine of runGraphRefresher is scheduled
SpecTicker == Init /\ [][NextTicker]_vars /\ WF_vars(BackgroundRefresh)

\* ------------------------------------------------------------------------
\* Properties
\* ------------------------------------------------------------------------
PoolTokens(pool) == {ToLower(pool.token0), ToLower(pool.token1)}

\* pools held by a graph
GraphPools(gd) ==
  UNION { UNION { Range(gd.poolMap[a][b]) : b \in DOMAIN gd.poolMap[a] } :
          a \in DOMAIN gd.poolMap }

Succeeded == qpc = "done" /\ response.status = "ok"
Failed(e) == qpc = "done" /\ response.status = "error" /\ response.err = e

\* every loop-free pool sequence of at most k pools that leads from token
\* `from` to token `to` in graph gd without entering a token of `visited`
RECURSIVE LoopFreePaths(_, _, _, _, _)
LoopFreePaths(gd, from, to, visited, k) ==
  IF k = 0 THEN {}
  ELSE UNION { UNION { IF n = to THEN {<<pool>>}
                       ELSE { <<pool>> \o rest :
                                rest \in LoopFreePaths(gd, n, to, visited \cup {n}, k - 1) } :
                       pool \in Range(EdgeList(gd.poolMap, from, n)) } :
               n \in InnerSet(gd.adj, from) \ visited }

\* C1: a successful quote returns the highest yield available: no loop-free
\* pool sequence of at most max_hops pools of the snapshot, all of whose
\* hops pass the slippage check, yields strictly more than amount_out
C1_HighestYield ==
  Succeeded =>
    \A p \in LoopFreePaths(snaps[g], tokenIn, tokenOut, {tokenIn},
                           EffectiveMaxHops(req.maxHops)) :
       LET out == CalculatePathOutput(p, req.amountIn, tokenIn, tokenOut)
       IN  out.err = "none" => out.amount <= response.amountOut

\* the tokens a path visits, starting from token t
RECURSIVE TokenWalk(_, _, _)
TokenWalk(path, i, t) ==
  IF i > Len(path) THEN <<t>>
  ELSE <<t>> \o TokenWalk(path, i + 1,
                 IF ToLower(path[i].token0) = t THEN ToLower(path[i].token1)
                 ELSE ToLower(path[i].token0))

Distinct(s) == \A i, j \in 1..Len(s) : i # j => s[i] # s[j]

ValidPath(path, from, to) ==
  /\ Len(path) >= 1
  /\ from \in PoolTokens(path[1])
  /\ to \in PoolTokens(path[Len(path)])
  /\ \A i \in 1..(Len(path) - 1) :
        Cardinality(PoolTokens(path[i]) \cap PoolTokens(path[i + 1])) = 1
  /\ Distinct([i \in 1..Len(path) |-> path[i].address])
  /\ Distinct(TokenWalk(path, 1, from))
  /\ TokenWalk(path, 1, from)[Len(path) + 1] = to

UsedPaths ==
  { pq[i].path : i \in 1..Len(pq) }
    \cup Range(bestPaths) \cup Range(found.paths)
    \cup { resultsChan[i].pools : i \in 1..Len(resultsChan) }
    \cup { response.paths[i].pools : i \in 1..Len(response.paths) }

\* the graph object holds every pool its build read and no other, in one
\* of the orders the store could enumerate them
CompleteBuild(id) ==
  /\ GraphPools(snaps[id]) = snapSrc[id]
  /\ \E order \in Perms(snapSrc[id]) : snaps[id] = BuildGraph(order)

\* C3 as stated: a quote issued before the next RefreshGraph completes
\* uses only pools of the snapshot that was current when it was issued
C3_IssuedBeforeRefresh ==
  (qpc # "idle" /\ gAtIssue # 0) =>
     \A p \in UsedPaths : Range(p) \subseteq snapSrc[gAtIssue]

\* C3: a quote uses only pools of the snapshot its search loaded, whatever
\* was added to the store or published since; a published snapshot holds
\* every pool its RefreshGraph read from the store, so a pool added before
\* that read is routable for every search that loads the snapshot
C3_LoadedSnapshot ==
  /\ \A id \in published : GraphPools(snaps[id]) = snapSrc[id]
  /\ g # 0 =>
       /\ g \in published
       /\ \A p \in UsedPaths : Range(p) \subseteq snapSrc[g]

\* a quote answered from the snapshot it loaded before the addition was
\* published, while the current snapshot already holds the added pool
C3_Witness ==
  /\ Succeeded
  /\ graph # g
  /\ \E a \in DOMAIN storePools :
        /\ storePools[a] \notin snapSrc[g]
        /\ storePools[a] \in GraphPools(snaps[graph])

\* the quote is inside FindBestPaths, past the load of the snapshot
Searching == qpc \in {"seed", "search"}

\* C4: a search works on one snapshot for its whole lifetime, the one that
\* was current when it started; that snapshot is published and is the
\* complete result of a single build; RefreshGraph never changes a graph
\* object after publishing it
C4_OneSnapshot ==
  /\ [](Searching => (g \in published /\ CompleteBuild(g)))
  /\ [][(qpc = "find" /\ qpc' # "find") => g' = graph]_vars
  /\ [][(Searching /\ qpc' # "find") => g' = g]_vars
  /\ [][\A id \in published : snaps'[id] = snaps[id]]_vars

\* a search still running on its snapshot after a refresh has published
\* the next one
C4_Witness ==
  /\ qpc = "search"
  /\ Len(pq) > 0
  /\ graph # g
  /\ snaps[graph] # snaps[g]

\* workers between the send on the semaphore channel and the receive
Holding == { i \in 1..Len(workers) : workers[i] = "holding" }

\* C5: at no point of a GetBestQuote do more than max_concurrent_paths
\* workers hold a semaphore slot, however many candidates there are
C5_SemaphoreBound ==
  /\ Cardinality(Holding) <= MaxConcurrentPaths
  /\ sem = Cardinality(Holding)

\* every slot is taken and a further candidate waits for one
C5_Witness ==
  /\ qpc = "evaluate"
  /\ Cardinality(Holding) = MaxConcurrentPaths
  /\ \E i \in 1..Len(workers) : workers[i] = "waiting"

C7_UnknownEndpoint ==
  (qpc \notin {"idle", "find"} /\ g # 0
     /\ (tokenIn \notin DOMAIN snaps[g].adj \/ tokenOut \notin DOMAIN snaps[g].adj)) =>
    /\ found = [paths |-> << >>, err |-> "none"]
    /\ Failed("no_path")
    /\ pq = << >> /\ bestPaths = << >>
    /\ workers = << >> /\ resultsChan = << >> /\ errorChan = << >>

\* token_in has pools in the snapshot, token_out has none
C7_Witness ==
  /\ Failed("no_path")
  /\ tokenIn \in DOMAIN snaps[g].adj
  /\ tokenOut \notin DOMAIN snaps[g].adj

\* the pools of the snapshot that trade token_in for token_out directly
DirectPools == Range(EdgeList(snaps[g].poolMap, tokenIn, tokenOut))

\* C8: when pools exist between token_in and token_out, each of them fails
\* the slippage check for amount_in and no multi-hop path exists (one pool
\* with reserves 100 / 200 and a request of 50), GetBestQuote fails with
\* NoViableQuote, not with NoPath
C8_SlippageIsNoViableQuote ==
  (qpc = "done" /\ g # 0 /\ DirectPools # {}
     /\ \A pool \in DirectPools :
           CalculateOutput(pool, req.amountIn, tokenIn).err = "slippage"
     /\ \A p \in LoopFreePaths(snaps[g], tokenIn, tokenOut, {tokenIn},
                             EffectiveMaxHops(req.maxHops)) :
           Len(p) = 1) =>
    Failed("no_viable_quote")

\* C9: a request cancelled before GetBestQuote has answered fails with
\* Canceled and is never answered with a success
C9_CancelSurfaces ==
  (qpc = "done" /\ cancelled) => Failed("canceled")

\* refresher r is called and returns an error in this step
RefreshFails(r) ==
  /\ rf[r].pc = "idle" /\ rf'[r].pc = "idle"
  /\ rf'[r].err = "store_unavailable"
  /\ \A q \in Refreshers \ {r} : rf'[q] = rf[q]
  /\ (nRefresh' # nRefresh \/ sys' = "fatal")

\* C10: a RefreshGraph whose GetAllPools fails returns the error and leaves
\* the pointer and every graph object as they were; the pointer moves only
\* when a refresh succeeds, to what that refresh built; once the
\* constructor has returned the snapshot is present and complete and no
\* search fails for want of a graph
C10_FailedRefreshKeepsSnapshot ==
  /\ [][\A r \in Refreshers : RefreshFails(r) => (graph' = graph /\ snaps' = snaps)]_vars
  /\ [][graph' # graph =>
          \E r \in Refreshers : /\ rf[r].pc = "build" /\ ReadyToPublish(rf[r])
                                /\ rf'[r] = IdleRefresh
                                /\ graph' = rf[r].build]_vars
  /\ [](sys = "running" => (graph # 0 /\ graph \in published /\ CompleteBuild(graph)))
  /\ [](found.err # "graph_not_initialized" /\ response.err # "graph_not_initialized")

\* a quote answered from the snapshot a failed periodic refresh left in
\* place, although the store has changed since that snapshot was built
C10_Witness ==
  /\ Succeeded
  /\ g = graph
  /\ rf["ticker"].err = "store_unavailable"
  /\ StoredPools # snapSrc[graph]

\* what the recomputation of candidate i gives
Recomputed(i) == CalculatePathOutput(found.paths[i], req.amountIn, tokenIn, tokenOut)

\* candidates whose worker has finished
Finished == { i \in 1..Len(workers) : workers[i] = "done" }

\* C11: in every interleaving the evaluation holds exactly one TradePath
\* for each finished candidate whose recomputed output is positive and
\* none for a candidate whose recomputation failed or gave zero; every
\* failure is counted on the error channel and never fails the quote,
\* which succeeds with all those TradePaths if there is at least one
C11_OneTradePathPerPositive ==
  qpc \in {"evaluate", "done"} =>
    LET positive == { i \in Finished : Recomputed(i).err = "none" /\ Recomputed(i).amount > 0 }
        failed == { i \in Finished : Recomputed(i).err # "none" }
    IN  /\ Len(resultsChan) = Cardinality(positive)
        /\ \A i \in positive :
              \E k \in 1..Len(resultsChan) :
                 /\ resultsChan[k].pools = found.paths[i]
                 /\ resultsChan[k].amountOut = Recomputed(i).amount
        /\ Len(errorChan) = Cardinality(failed)
        /\ qpc = "done" =>
             /\ response.err \in {"none", "no_viable_quote"}
             /\ (positive # {}) => /\ response.status = "ok"
                                   /\ Len(response.paths) = Cardinality(positive)

\* a failed candidate, a candidate without output and a positive one were
\* evaluated together and the quote succeeded
C11_Witness ==
  /\ Succeeded
  /\ Len(errorChan) >= 1
  /\ \E i \in Finished : Recomputed(i).err = "none" /\ Recomputed(i).amount = 0
  /\ Len(resultsChan) >= 1

\* C12: every path FindBestPaths keeps or returns has between one and
\* max_hops pools, max_hops of 0 or less counting as 3, and no queued
\* state is longer: a state with max_hops pools is not expanded
C12_HopLimit ==
  LET limit == IF req.maxHops <= 0 THEN FinderMaxHops ELSE req.maxHops
  IN  /\ \A p \in Range(bestPaths) \cup Range(found.paths) :
            Len(p) >= 1 /\ Len(p) <= limit
      /\ \A i \in 1..Len(pq) : Len(pq[i].path) >= 1 /\ Len(pq[i].path) <= limit

\* a search with max_hops 1 has ended although the snapshot holds a
\* two-pool path to token_out whose hops all pass
C12_Witness ==
  /\ qpc = "done"
  /\ req.maxHops = 1
  /\ found.err = "none"
  /\ \E p \in LoopFreePaths(snaps[g], tokenIn, tokenOut, {tokenIn}, 2) :
        /\ Len(p) = 2
        /\ CalculatePathOutput(p, req.amountIn, tokenIn, tokenOut).err = "none"

\* C13: FindBestPaths returns at most max_paths paths, pairwise distinct,
\* and returns only when max_paths paths are kept or the queue is empty;
\* GetBestQuote asks for 20 paths, for 10 when amount_in exceeds 10^18,
\* and its response carries no more TradePaths than it asked for
C13_AtMostMaxPaths ==
  /\ Len(bestPaths) <= maxPaths
  /\ Distinct(bestPaths)
  /\ found.err = "none" =>
       /\ found.paths = bestPaths
       /\ Len(found.paths) = maxPaths \/ pq = << >>
  /\ gAtIssue # 0 =>
       /\ maxPaths = IF req.amountIn > OneEther THEN 10 ELSE 20
       /\ Len(response.paths) <= maxPaths

\* the search stopped at max_paths paths with states still queued
C13_Witness ==
  /\ found.err = "none"
  /\ Len(found.paths) = maxPaths
  /\ Len(pq) > 0
  /\ maxPaths = MaxPathsAsked

\* ------------------------------------------------------------------------
\* The price calculator
\* ------------------------------------------------------------------------
ReturnedFrom(fn) == calc.pc = "return" /\ calc.fn = fn

\* the reserve on the side of token t of pool p, and the one opposite
ReserveOf(p, t) == IF ToLower(p.token0) = ToLower(t) THEN p.reserve0 ELSE p.reserve1
ReserveOpposite(p, t) == IF ToLower(p.token0) = ToLower(t) THEN p.reserve1 ELSE p.reserve0
InPool(p, t) == ToLower(t) \in {ToLower(p.token0), ToLower(p.token1)}

\* C14: CalculateOutput fails with an unknown-token error when token_in is
\* not a token of the pool; otherwise it returns 0 without error when a
\* reserve is zero or when amount_in is 0; otherwise, when it returns without
\* error, the amount is floor(reserve_out * amount_in * 997 /
\* (reserve_in * 1000 + amount_in * 997))
C14_CalculateOutputContract ==
  ReturnedFrom("CalculateOutput") =>
    LET rin == ReserveOf(calc.pool, calc.tokenIn)
        rout == ReserveOpposite(calc.pool, calc.tokenIn)
        num == rout * calc.amountIn * 997
        den == rin * 1000 + calc.amountIn * 997
    IN  IF ~InPool(calc.pool, calc.tokenIn) THEN calc.err = "unknown_token"
        ELSE IF rin = 0 \/ rout = 0 THEN calc.amount = 0 /\ calc.err = "none"
        ELSE IF calc.amountIn = 0 THEN calc.amount = 0 /\ calc.err = "none"
        ELSE calc.err = "none" =>
               /\ calc.amount * den <= num
               /\ num < (calc.amount + 1) * den

\* a call with the token address in upper case returned a positive amount
C14_Witness ==
  /\ ReturnedFrom("CalculateOutput")
  /\ calc.tokenIn = "A"
  /\ calc.amountIn = 100
  /\ calc.err = "none"
  /\ calc.amount > 0

\* the price impact of trading amountIn is above maxSlippage percent:
\* 100 * (amountIn * reserveOut - amountOut * reserveIn)
\*    > maxSlippage * amountIn * reserveOut, in exact arithmetic
ImpactAboveLimit(reserveIn, reserveOut, amountIn, maxSlippage) ==
  LET amountOut == calculateOutputWithFeeWide(reserveIn, reserveOut, amountIn)
      atSpot == BMul(amountIn, reserveOut)
  IN  BCmp(BMulSmall(BSub(atSpot, BMul(amountOut, reserveIn)), 100),
           BMul(atSpot, BFromInt(maxSlippage))) > 0

\* C15: for non-zero reserves and a positive amount_in the slippage check
\* fails exactly when the price impact is above max_slippage percent
C15_SlippageExactlyAboveLimit ==
  ( /\ ReturnedFrom("checkSlippageWithLimit")
    /\ Len(calc.reserveIn) > 0
    /\ Len(calc.reserveOut) > 0
    /\ Len(calc.amountIn) > 0 )
  => ( calc.err = "slippage"
         <=> ImpactAboveLimit(calc.reserveIn, calc.reserveOut, calc.amountIn,
                              calc.maxSlippage) )

\* the value of at most two digits
BToInt(x) == Limb(x, 1) + 10000 * Limb(x, 2)

\* on operands of the size of the catalog's reserves the floating-point
\* computation of checkSlippageWithLimit and the exact comparison
\* SlippageTooHigh decide alike
SlippageAgreesOnSmallOperands ==
  ( /\ ReturnedFrom("checkSlippageWithLimit")
    /\ Len(calc.reserveIn) <= 1
    /\ Len(calc.reserveOut) <= 1
    /\ Len(calc.amountIn) <= 1 )
  => calc.err = checkSlippageWithLimit(BToInt(calc.reserveIn), BToInt(calc.reserveOut),
                                       BToInt(calc.amountIn), calc.maxSlippage)

\* the token and the amount handed to hop i of a hop list when every hop
\* before it succeeded
RECURSIVE Fed(_, _, _, _)
Fed(pools, first, amount0, i) ==
  IF i = 1 THEN [token |-> ToLower(first), amount |-> amount0]
  ELSE LET before == Fed(pools, first, amount0, i - 1)
           p == pools[i - 1]
       IN  [token |-> IF ToLower(p.token0) = before.token THEN ToLower(p.token1)
                      ELSE ToLower(p.token0),
            amount |-> CalculateOutput(p, before.amount, before.token).amount]

HopError(pools, first, amount0, i) ==
  CalculateOutput(pools[i], Fed(pools, first, amount0, i).amount,
                  Fed(pools, first, amount0, i).token).err

\* the first hop that fails, 0 if none does
FirstFailing(pools, first, amount0) ==
  LET F == { i \in 1..Len(pools) : HopError(pools, first, amount0, i) # "none" }
  IN  IF F = {} THEN 0 ELSE CHOOSE i \in F : \A j \in F : i <= j

\* C16: CalculatePathOutput returns 0 without error for an empty list;
\* otherwise it feeds each hop's output and the pool's other token to the
\* next hop and returns the last output, unless a hop fails (input token not
\* in the pool, slippage) or the token reached is not token_out: then it
\* returns that error and no amount
C16_PathOutputChains ==
  ReturnedFrom("CalculatePathOutput") =>
    LET n == Len(calc.pools)
        f == FirstFailing(calc.pools, calc.tokenIn, calc.amountIn)
        last == Fed(calc.pools, calc.tokenIn, calc.amountIn, n + 1)
    IN  IF n = 0 THEN calc.amount = 0 /\ calc.err = "none"
        ELSE IF f # 0
             THEN /\ calc.err = HopError(calc.pools, calc.tokenIn, calc.amountIn, f)
                  /\ calc.err \in {"unknown_token", "slippage"}
                  /\ calc.amount = 0
        ELSE IF last.token # ToLower(calc.tokenOut)
             THEN calc.err = "path_mismatch" /\ calc.amount = 0
        ELSE calc.err = "none" /\ calc.amount = last.amount

\* a list of two hops a -> b -> c returned the second hop's output
C16_Witness ==
  /\ ReturnedFrom("CalculatePathOutput")
  /\ Len(calc.pools) = 2
  /\ calc.pools[1].address = "p1"
  /\ calc.pools[2].address = "p8"
  /\ calc.tokenOut = "C"
  /\ calc.err = "none"
  /\ calc.amount > 0

GetReturned(c) == calls[c].op = "GetPool" /\ calls[c].pc = "return"

StoreReturned(c) == calls[c].op = "StorePool" /\ calls[c].pc = "return"

LocalHolds(address) ==
  /\ address \in DOMAIN localCache.pools
  /\ localCache.pools[address].address = address

\* what a finished GetPool hands back, by the tier that answered
GetPoolAnswer(c) ==
  \/ /\ calls[c].remote = "none"
     /\ calls[c].err = "none"
     /\ calls[c].pool.address = calls[c].address
     /\ LocalHolds(calls[c].address)
  \/ /\ calls[c].remote \in {"nil", "io_error"}
     /\ calls[c].err = RedisGetError(calls[c].remote)
     /\ calls[c].err # "none"
     /\ calls[c].pool = NilPool
  \/ /\ calls[c].remote = "ok"
     /\ calls[c].err = "none"
     /\ calls[c].pool.address = calls[c].address
     /\ calls[c].address \in DOMAIN redisCache.keys

\* the local lookup decides: a record found locally ends the call there,
\* the remote store is asked only after a local miss
LocalDecides(c) ==
  /\ (calls[c].op = "GetPool" /\ calls[c].pc = "local" /\ calls'[c] # calls[c])
       => IF calls[c].address \in DOMAIN localCache.pools
            THEN /\ calls'[c].pc = "local_hit"
                 /\ calls'[c].pool = localCache.pools[calls[c].address]
            ELSE calls'[c].pc = "local_miss"
  /\ (calls[c].op = "GetPool" /\ calls'[c].remote # calls[c].remote /\ calls[c].pc # "return"
        /\ calls[c].pc # "none")
       => calls[c].pc = "remote"
  /\ (calls[c].pc = "local_hit" /\ calls'[c] # calls[c])
       => /\ calls'[c].pc = "return"
          /\ calls'[c].remote = "none"
          /\ calls'[c].pool = calls[c].pool

RemoteHitReturned(address) ==
  \E c \in CacheClients :
    GetReturned(c) /\ calls[c].remote = "ok" /\ calls[c].address = address

\* C17: GetPool asks the local store first; a local hit returns the local
\* record and the remote store is not asked; after a local miss the remote
\* store is asked, its error is returned with no record, its record is
\* returned on success and is eventually stored locally, where every later
\* local lookup of the address finds it.
C17_GetPoolTwoLevels ==
  /\ [](\A c \in CacheClients : GetReturned(c) => GetPoolAnswer(c))
  /\ [][\A c \in CacheClients : LocalDecides(c)]_vars
  /\ [][\A a \in CacheAddresses : LocalHolds(a) => LocalHolds(a)']_vars
  /\ \A a \in CacheAddresses : RemoteHitReturned(a) ~> LocalHolds(a)

\* a remote hit was backfilled and the next GetPool of the address, with no
\* StorePool in between, was answered by the local store
C17_Witness ==
  /\ nGetPool = 2
  /\ nCacheOps = 2
  /\ backfill = << >>
  /\ GetReturned("k1") /\ calls["k1"].remote = "ok"
  /\ GetReturned("k2") /\ calls["k2"].remote = "none"
  /\ calls["k2"].address = calls["k1"].address
  /\ calls["k2"].pool = calls["k1"].pool
  /\ stats = [LocalHits |-> 1, LocalMisses |-> 1, RedisHits |-> 1, RedisMisses |-> 0]

RedisHolds(redis, pool) ==
  /\ pool.address \in DOMAIN redis.keys
  /\ Unmarshal(redis.keys[pool.address]) = pool
  /\ <<pool.token0, pool.token1, pool.address>> \in redis.tokenPairs
  /\ pool.address \in redis.allPools

\* the step on which StorePool returns to client c
StorePoolReturnsTo(c) ==
  calls[c].op = "StorePool" /\ calls[c].pc = "remote" /\ calls'[c].pc = "return"

\* C18: StorePool writes the pool to the local store and to the remote store;
\* it returns an error exactly when the remote write failed, and then the
\* error is the wrapped remote error; the local write has been made by then
\* whatever the remote store answers.
C18_StorePoolWritesBoth ==
  /\ [][\A c \in CacheClients : StorePoolReturnsTo(c) =>
          /\ (calls'[c].err # "none") <=> (calls'[c].remote # "ok")
          /\ calls'[c].err \in {"none", "failed to store pool in Redis"}
          /\ calls'[c].remote = "ok" => RedisHolds(redisCache', calls[c].pool)
          /\ calls'[c].remote = "set_failed" => redisCache' = redisCache
          /\ LocalHolds(calls[c].address)
          /\ localCache' = localCache]_vars
  /\ [](\A c \in CacheClients :
          (calls[c].op = "StorePool" /\ calls[c].pc \in {"remote", "return"})
            => LocalHolds(calls[c].address))
  /\ [][\A c \in CacheClients :
          (calls[c].op = "StorePool" /\ calls[c].pc = "local" /\ calls'[c].pc = "remote")
            => localCache'.pools[calls[c].address] = calls[c].pool]_vars

\* one StorePool returned nil with both stores holding its pool, another
\* returned the wrapped error of a failed SET
C18_Witness ==
  /\ StoreReturned("k1") /\ calls["k1"].err = "none"
  /\ RedisHolds(redisCache, calls["k1"].pool)
  /\ localCache.pools[calls["k1"].address] = calls["k1"].pool
  /\ StoreReturned("k2") /\ calls["k2"].remote = "set_failed"
  /\ calls["k2"].err = "failed to store pool in Redis"
  /\ calls["k2"].address # calls["k1"].address

\* C19: once StorePool(p) has returned, with or without an error, the local
\* store holds a record under p's address: its GetPool succeeds and the
\* record it returns carries that address.
C19_LocalHoldsAfterStorePool ==
  \A c \in CacheClients :
    StoreReturned(c) =>
      /\ calls[c].address = calls[c].pool.address
      /\ calls[c].address \in DOMAIN localCache.pools
      /\ localCache.pools[calls[c].address].address = calls[c].pool.address

\* StorePool returned an error from a server that took no write at all, and
\* the local store holds the pool
C19_Witness ==
  /\ StoreReturned("k1")
  /\ calls["k1"].err # "none"
  /\ calls["k1"].remote = "set_failed"
  /\ redisCache = EmptyRedis
  /\ nCacheOps = 1
  /\ localCache.pools[calls["k1"].address] = calls["k1"].pool

\* GetPool calls at one of the given positions
GetPoolsAt(pcs) ==
  Cardinality({ c \in CacheClients : calls[c].op = "GetPool" /\ calls[c].pc \in pcs })

NoGetPoolInFlight ==
  \A c \in CacheClients : calls[c].op = "GetPool" => calls[c].pc = "return"

CounterSum(st) == st.LocalHits + st.LocalMisses + st.RedisHits + st.RedisMisses

\* what one step does to the counters: GetPool's counting steps add one to
\* their own counter, every other step leaves the four alone
CountedOnce ==
  /\ \A f \in DOMAIN stats : stats'[f] >= stats[f]
  /\ CounterSum(stats') <= CounterSum(stats) + 1
  /\ \A c \in CacheClients :
       /\ (calls[c].pc = "local_hit" /\ calls'[c].pc = "return")
            => stats' = [stats EXCEPT !.LocalHits = @ + 1]
       /\ (calls[c].pc = "local_miss" /\ calls'[c].pc = "remote")
            => stats' = [stats EXCEPT !.LocalMisses = @ + 1]
       /\ (calls[c].pc = "remote_hit" /\ calls'[c].pc = "backfill")
            => stats' = [stats EXCEPT !.RedisHits = @ + 1]
       /\ (calls[c].pc = "remote_miss" /\ calls'[c].pc = "return")
            => stats' = [stats EXCEPT !.RedisMisses = @ + 1]
  /\ (\A c \in CacheClients :
        calls[c].pc \notin {"local_hit", "local_miss", "remote_hit", "remote_miss"}
          \/ calls'[c] = calls[c])
       => stats' = stats

\* the counters account for the calls: every GetPool past its local lookup
\* is in exactly one of the local counters, every local miss past its remote
\* lookup in exactly one of the remote counters
CountersAccount ==
  /\ stats.LocalHits + stats.LocalMisses
       = nGetPool - GetPoolsAt({"local", "local_hit", "local_miss"})
  /\ stats.RedisHits + stats.RedisMisses
       = stats.LocalMisses - GetPoolsAt({"remote", "remote_hit", "remote_miss"})
  /\ stats.LocalMisses >= stats.RedisHits + stats.RedisMisses
  /\ NoGetPoolInFlight => stats.LocalMisses = stats.RedisHits + stats.RedisMisses
  /\ (nGetPool = 1 /\ \E c \in CacheClients : GetReturned(c) /\ calls[c].remote = "none")
       => stats = [LocalHits |-> 1, LocalMisses |-> 0, RedisHits |-> 0, RedisMisses |-> 0]

\* C20: the four counters never decrease; a GetPool adds one to exactly one
\* of LocalHits and LocalMisses and, after a local miss, to exactly one of
\* RedisHits and RedisMisses; LocalMisses >= RedisHits + RedisMisses in
\* every state, with equality when no GetPool is in flight; one GetPool
\* answered locally on a fresh cache leaves LocalHits = 1 and the rest 0.
C20_CountersAccountForCalls == []CountersAccount /\ [][CountedOnce]_vars

\* the only GetPool so far was answered by the local store
C20_Witness ==
  /\ nGetPool = 1
  /\ \E c \in CacheClients : GetReturned(c) /\ calls[c].remote = "none"
  /\ NoGetPoolInFlight
  /\ stats = [LocalHits |-> 1, LocalMisses |-> 0, RedisHits |-> 0, RedisMisses |-> 0]

\* the record the store keeps for a pool: lowercase tokens, nil reserves as 0
AsStored(pool) ==
  Pool(pool.address, pool.exchange, ToLower(pool.token0), ToLower(pool.token1),
       IF pool.reserve0 = NilReserve THEN 0 ELSE pool.reserve0,
       IF pool.reserve1 = NilReserve THEN 0 ELSE pool.reserve1)

\* the records a store holds after the StorePool calls of a log: per address
\* the last one
CurrentPools(log) ==
  { AsStored(log[i]) : i \in { k \in 1..Len(log) :
      \A j \in (k + 1)..Len(log) : log[j].address # log[k].address } }

PoolsOfPair(log, tokenA, tokenB) ==
  { p \in CurrentPools(log) : {p.token0, p.token1} = {ToLower(tokenA), ToLower(tokenB)} }

ByTokensReturned == storeCall # NoCall /\ storeCall.fn = "GetPoolsByTokens"

\* C21: after any sequence of StorePool calls GetPoolsByTokens(a, b) returns
\* exactly the currently stored pools whose token pair is {a, b}, each of
\* them once, and the same pools as GetPoolsByTokens(b, a).
C21_ByTokensExactlyThePair ==
  ByTokensReturned =>
    /\ Range(storeCall.pools) = PoolsOfPair(storeLog, storeCall.tokenA, storeCall.tokenB)
    /\ Len(storeCall.pools) = Cardinality(Range(storeCall.pools))
    /\ Range(storeCall.pools)
         = Range(GetPoolsByTokens(TheStore, storeCall.tokenB, storeCall.tokenA))

\* the part of C21 the index does keep: every stored pool of the pair is
\* returned, and both argument orders give the same pools
ByTokensCoversThePair ==
  ByTokensReturned =>
    /\ PoolsOfPair(storeLog, storeCall.tokenA, storeCall.tokenB) \subseteq Range(storeCall.pools)
    /\ Range(storeCall.pools)
         = Range(GetPoolsByTokens(TheStore, storeCall.tokenB, storeCall.tokenA))

StoredAddresses(log) == { log[i].address : i \in 1..Len(log) }

\* the record most recently stored under an address
LastStored(log, address) ==
  CHOOSE p \in CurrentPools(log) : p.address = address

\* C22: after StorePool(p) GetPool(p.address) returns the record stored last
\* under that address, GetAllPools lists exactly one record per stored
\* address, and GetPool of an address never stored fails with "pool not
\* found", whatever StorePool calls came before and in whatever order the
\* store's mutex admitted them.
C22_GetPoolReturnsLastStored ==
  /\ (storeCall # NoCall /\ storeCall.fn = "StorePool") =>
       GetPool(TheStore, storeCall.pool.address)
         = [pool |-> AsStored(storeCall.pool), err |-> "none"]
  /\ (storeCall # NoCall /\ storeCall.fn = "GetPool") =>
       IF storeCall.address \in StoredAddresses(storeLog)
         THEN /\ storeCall.err = "none"
              /\ storeCall.pool = LastStored(storeLog, storeCall.address)
         ELSE /\ storeCall.err = "pool not found"
              /\ storeCall.pool = NilPool
  /\ (storeCall # NoCall /\ storeCall.fn = "GetAllPools") =>
       /\ Len(storeCall.pools) = Cardinality(StoredAddresses(storeLog))
       /\ Range(storeCall.pools) = CurrentPools(storeLog)
       /\ { p.address : p \in Range(storeCall.pools) } = StoredAddresses(storeLog)

\* an address was stored twice with different records and GetPool returned
\* the second; another address is stored as well
C22_Witness ==
  /\ storeCall # NoCall /\ storeCall.fn = "GetPool" /\ storeCall.err = "none"
  /\ Len(storeLog) = 3
  /\ storeLog[1].address = storeCall.address
  /\ storeLog[3].address = storeCall.address
  /\ storeLog[2].address # storeCall.address
  /\ storeLog[1] # storeLog[3]
  /\ storeCall.pool = AsStored(storeLog[3])

\* C23: every record the store holds after StorePool has reserves that are
\* not nil and not negative, lowercase token0 and token1 addresses, and
\* token0 different from token1.
C23_StoredRecordsWellFormed ==
  \A a \in DOMAIN storePools :
    /\ storePools[a].reserve0 # NilReserve /\ storePools[a].reserve1 # NilReserve
    /\ storePools[a].reserve0 >= 0 /\ storePools[a].reserve1 >= 0
    /\ storePools[a].token0 = ToLower(storePools[a].token0)
    /\ storePools[a].token1 = ToLower(storePools[a].token1)
    /\ storePools[a].token0 # storePools[a].token1

\* the part of C23 StorePool does establish: no nil reserve, lowercase tokens
StoredRecordsNormalized ==
  \A a \in DOMAIN storePools :
    /\ storePools[a].reserve0 # NilReserve /\ storePools[a].reserve1 # NilReserve
    /\ storePools[a].token0 = ToLower(storePools[a].token0)
    /\ storePools[a].token1 = ToLower(storePools[a].token1)

\* the pools of a set that lie on the edge {a, b}
OnEdge(S, a, b) == { p \in S : PoolTokens(p) = {a, b} }

RECURSIVE SumLiquidity(_)
\* the sum of reserve0 x reserve1 over a set of pools
SumLiquidity(S) ==
  IF S = {} THEN 0
  ELSE LET p == CHOOSE q \in S : TRUE
       IN  p.reserve0 * p.reserve1 + SumLiquidity(S \ {p})

SnapshotTokens(gd) ==
  DOMAIN gd.adj \cup DOMAIN gd.poolMap \cup DOMAIN gd.liquidityMap
    \cup UNION { gd.adj[a] : a \in DOMAIN gd.adj }

SymmetricSnapshot(gd, src) ==
  \A a, b \in SnapshotTokens(gd) :
    /\ (a \in DOMAIN gd.adj /\ b \in gd.adj[a]) <=> (b \in DOMAIN gd.adj /\ a \in gd.adj[b])
    /\ EdgeList(gd.poolMap, a, b) = EdgeList(gd.poolMap, b, a)
    /\ (a \in DOMAIN gd.liquidityMap /\ b \in DOMAIN gd.liquidityMap[a])
         <=> (a \in DOMAIN gd.adj /\ b \in gd.adj[a])
    /\ (a \in DOMAIN gd.adj /\ b \in gd.adj[a]) =>
         /\ gd.liquidityMap[a][b] = gd.liquidityMap[b][a]
         /\ gd.liquidityMap[a][b] = SumLiquidity(OnEdge(src, a, b))
         /\ Range(EdgeList(gd.poolMap, a, b)) = OnEdge(src, a, b)

\* C24: in every published snapshot b is adjacent to a exactly when a is
\* adjacent to b, the pool lists of (a, b) and (b, a) are equal, and the
\* liquidity of (a, b) equals that of (b, a) and is the sum of reserve0 x
\* reserve1 over the pools on the edge.
C24_SnapshotSymmetric ==
  \A id \in published : SymmetricSnapshot(snaps[id], snapSrc[id])

\* a published snapshot with two pools on one edge, stored in opposite
\* orientations, next to another edge
C24_Witness ==
  /\ graph \in published
  /\ Len(EdgeList(snaps[graph].poolMap, "a", "c")) = 2
  /\ snaps[graph].liquidityMap["c"]["a"] = 5000 * 2500 + 5300 * 5300
  /\ "b" \in snaps[graph].adj["c"]

\* C25: two RefreshGraph runs against an unchanged store publish equal
\* snapshots: the same adj, the same liquidityMap and, on every edge, the
\* same poolMap list with the pools in the same order.
C25_RefreshTwiceSameSnapshot ==
  \A i, j \in published :
    snapSrc[i] = snapSrc[j] => snaps[i] = snaps[j]

\* the part of C25 that holds: the same adj, the same liquidityMap, and on
\* every edge the same pools, in some order
RefreshTwiceSameUpToOrder ==
  \A i, j \in published :
    snapSrc[i] = snapSrc[j] =>
      /\ snaps[i].adj = snaps[j].adj
      /\ snaps[i].liquidityMap = snaps[j].liquidityMap
      /\ \A a, b \in SnapshotTokens(snaps[i]) :
           /\ Range(EdgeList(snaps[i].poolMap, a, b)) = Range(EdgeList(snaps[j].poolMap, a, b))
           /\ Len(EdgeList(snaps[i].poolMap, a, b)) = Len(EdgeList(snaps[j].poolMap, a, b))

\* C26: a GetBestQuote call, successful or not, writes no shared state: the
\* pool records and the token-pair index of every tier of the store, the
\* local tier of the two-level cache included, and the current snapshot stay
\* as they were.  (Nothing but one quote at a time, and what it starts, runs
\* in SpecQuoteCache.)
C26_QuoteWritesNothing ==
  [][/\ localCache' = localCache
     /\ redisCache' = redisCache
     /\ storePools' = storePools /\ tokenPairs' = tokenPairs
     /\ graph' = graph /\ snaps' = snaps]_vars

\* the part of C26 that holds on the two-level cache: the quote leaves Redis
\* and the graph alone; on a MemoryStore (SpecQuote) it leaves everything alone
QuoteWritesOnlyLocalTier ==
  [][/\ redisCache' = redisCache
     /\ storePools' = storePools /\ tokenPairs' = tokenPairs
     /\ graph' = graph /\ snaps' = snaps]_vars

\* a step of warmLocalCache or of the backfill of GetPool that assigns fields of
\* a record a published snapshot points to
WritesPublishedRecord ==
  \E i \in 1..Len(warming) :
    /\ warming[i].snap \in published
    /\ FieldsWritten(Head(warming[i].pools)) # {}
    /\ localCache' = StorePoolInto(localCache, Head(warming[i].pools))
    /\ warming' # warming

\* C27: no operation writes a field of a pool record while a published
\* snapshot references that record: the records of a published snapshot keep
\* their content and no store call assigns their fields in place
C27_NoInPlaceWriteUnderSnapshot ==
  [][ /\ \A id \in published : snaps'[id] = snaps[id]
      /\ ~WritesPublishedRecord ]_vars

\* with the MemoryStore alone a published snapshot never changes: StorePool
\* replaces the record under its address
PublishedSnapshotsFrozen ==
  [][ \A id \in published : snaps'[id] = snaps[id] ]_vars

\* the candidate lists FindBestPaths can return to a caller that runs alone,
\* from a search state on: one list per order the map ranges can take
RECURSIVE SearchAlone(_, _, _, _, _, _)
SearchAlone(gd, rq, limit, queue, best, kept) ==
  IF ~SearchContinues(queue, kept, limit) THEN {kept}
  ELSE
    LET cur == HeapPopItem(queue)
        rest == HeapPopRest(queue)
    IN  IF cur.lastToken \in DOMAIN best /\ cur.amountOut < best[cur.lastToken]
          THEN SearchAlone(gd, rq, limit, rest, best, kept)
        ELSE IF cur.lastToken = ToLower(rq.tokenOut)
          THEN SearchAlone(gd, rq, limit, rest, best, Append(kept, cur.path))
        ELSE IF HopLimitReached(cur.path, rq.maxHops)
          THEN SearchAlone(gd, rq, limit, rest, best, kept)
        ELSE UNION { LET st == ExpandFrom(
                                 EdgeCandidates(gd, cur.lastToken,
                                                OpenNeighbors(order, cur.path), 1), 1,
                                 [pq |-> rest, best |-> best], cur)
                     IN  SearchAlone(gd, rq, limit, st.pq, st.best, kept) :
                     order \in Perms(InnerSet(gd.adj, cur.lastToken)) }

FoundAlone(gd, rq) ==
  IF ~EndpointsKnown(gd, ToLower(rq.tokenIn), ToLower(rq.tokenOut)) THEN { << >> }
  ELSE UNION { LET st == SeedFrom(EdgeCandidates(gd, ToLower(rq.tokenIn), order, 1), 1,
                                  [pq |-> << >>, best |-> EmptyMap],
                                  rq.amountIn, ToLower(rq.tokenIn))
               IN  SearchAlone(gd, rq, RouterMaxPaths(rq.amountIn), st.pq, st.best, << >>) :
               order \in Perms(InnerSet(gd.adj, ToLower(rq.tokenIn))) }

\* status, error and amount_out of a response
Outcome(status, err, amountOut) == [status |-> status, err |-> err, amountOut |-> amountOut]

\* the answer GetBestQuote gives for one candidate list
AnswerFor(paths, rq) ==
  LET outs == { CalculatePathOutput(paths[i], rq.amountIn, ToLower(rq.tokenIn),
                                    ToLower(rq.tokenOut)) : i \in 1..Len(paths) }
      good == { o.amount : o \in { x \in outs : x.err = "none" /\ ~NoOutput(x.amount) } }
  IN  IF Len(paths) = 0 THEN Outcome("error", "no_path", 0)
      ELSE IF good = {} THEN Outcome("error", "no_viable_quote", 0)
      ELSE Outcome("ok", "none", CHOOSE m \in good : \A n \in good : n <= m)

\* every outcome of the request when its quote is the only one running on
\* the snapshot
AloneOutcomes(gd, request) ==
  LET rq == [request EXCEPT !.maxHops = IF @ = 0 THEN DefaultMaxHops ELSE @]
  IN  { AnswerFor(paths, rq) : paths \in FoundAlone(gd, rq) }

\* the quote of goroutine i, scheduled or not
QuoteOf(i) == IF i = running THEN CurrentQuote ELSE parked[i]

\* pools chained from token_in to token_out, one exchange name per pool, a
\* positive amount that is the chained output
ValidTradePath(tp, rq) ==
  /\ Len(tp.pools) >= 1
  /\ Len(tp.pools) <= EffectiveMaxHops(rq.maxHops)
  /\ Len(tp.dexes) = Len(tp.pools)
  /\ InPool(tp.pools[1], rq.tokenIn)
  /\ InPool(tp.pools[Len(tp.pools)], rq.tokenOut)
  /\ \A k \in 1..(Len(tp.pools) - 1) :
        PoolTokens(tp.pools[k]) \cap PoolTokens(tp.pools[k + 1]) # {}
  /\ tp.amountOut > 0
  /\ tp.amountOut = CalculatePathOutput(tp.pools, rq.amountIn, ToLower(rq.tokenIn),
                                        ToLower(rq.tokenOut)).amount

\* C28: every quote issued in parallel with others against the same snapshot
\* completes successfully with a structurally valid TradePath and answers
\* with an amount_out the same request gets when it runs alone
C28_ParallelQuotesAsAlone ==
  \A i \in 1..Len(parked) :
    LET quote == QuoteOf(i)
    IN  quote.qpc = "done" =>
          /\ quote.response.status = "ok"
          /\ ValidTradePath(quote.response.bestPath, quote.req)
          /\ Outcome(quote.response.status, quote.response.err, quote.response.amountOut)
               \in AloneOutcomes(snaps[graph], ParallelRequest(i))

\* both goroutines have their answer and their quotes were in flight together
C28_Witness ==
  /\ running # 0
  /\ overlapped
  /\ \A i \in 1..Len(parked) : QuoteOf(i).qpc = "done" /\ QuoteOf(i).response.status = "ok"
  /\ \E i, j \in 1..Len(parked) : QuoteOf(i).response.amountOut # QuoteOf(j).response.amountOut

\* a single quote answers with one of the outcomes of the sequential search
SingleQuoteIsAlone ==
  (qpc = "done" /\ graph # 0 /\ ~cancelled /\ response.err # "graph_not_initialized") =>
    Outcome(response.status, response.err, response.amountOut)
      \in AloneOutcomes(snaps[g], [req EXCEPT !.maxHops = req.maxHops])

\* the amounts a returned call is compared with
ComparedAmounts == 0..300

\* a call of CalculateOutput on a pool with liquidity on both sides whose
\* input passed the slippage check
PassedSlippageCheck ==
  /\ ReturnedFrom("CalculateOutput")
  /\ InPool(calc.pool, calc.tokenIn)
  /\ calc.pool.reserve0 # 0
  /\ calc.pool.reserve1 # 0
  /\ calc.err = "none"

\* C29: for fixed non-zero reserves, of two input amounts a <= b that both
\* pass the slippage check the larger one gets at least the output of the
\* smaller one
C29_OutputMonotone ==
  PassedSlippageCheck =>
    \A b \in ComparedAmounts :
      (calc.amountIn <= b /\ CalculateOutput(calc.pool, b, calc.tokenIn).err = "none")
        => calc.amount <= CalculateOutput(calc.pool, b, calc.tokenIn).amount

\* an amount that passed, a larger one that passes with a larger output, and
\* a still larger one that the slippage check cuts off
C29_Witness ==
  /\ PassedSlippageCheck
  /\ calc.amount > 0
  /\ \E b \in ComparedAmounts :
       /\ calc.amountIn < b
       /\ CalculateOutput(calc.pool, b, calc.tokenIn).err = "none"
       /\ calc.amount < CalculateOutput(calc.pool, b, calc.tokenIn).amount
  /\ \E b \in ComparedAmounts :
       /\ calc.amountIn < b
       /\ CalculateOutput(calc.pool, b, calc.tokenIn).err = "slippage"

\* the pool with (token0, reserve0) and (token1, reserve1) exchanged
Swapped(p) ==
  [p EXCEPT !.token0 = p.token1, !.token1 = p.token0,
            !.reserve0 = p.reserve1, !.reserve1 = p.reserve0]

\* C30: CalculateOutput gives the same amount, or the same error, for a pool
\* and for the pool with (token0, reserve0) and (token1, reserve1) exchanged,
\* on the same token_in and amount_in
C30_OrientationInvariant ==
  ReturnedFrom("CalculateOutput") =>
    CalculateOutput(Swapped(calc.pool), calc.amountIn, calc.tokenIn)
      = CalcResult(calc.amount, calc.err)

\* an unbalanced pool entered through its token1, written in another case
\* than the pool's, with a positive output
C30_Witness ==
  /\ ReturnedFrom("CalculateOutput")
  /\ calc.pool.reserve0 # calc.pool.reserve1
  /\ ToLower(calc.tokenIn) = ToLower(calc.pool.token1)
  /\ calc.err = "none"
  /\ calc.amount > 0
  /\ CalculateOutput(Swapped(calc.pool), calc.amountIn, calc.tokenIn).amount = calc.amount

\* the spellings of an address that differ in letter case only
Spellings(t) == { s \in {"a", "A", "b", "B", "c", "C", "d", "D"} : ToLower(s) = ToLower(t) }

PoolSpellings(p) ==
  { [p EXCEPT !.token0 = s0, !.token1 = s1] :
      s0 \in Spellings(p.token0), s1 \in Spellings(p.token1) }

\* the list returned is one the same store returns for every other spelling
\* of the two arguments
StoresCaseInvariant ==
  (storeCall # NoCall /\ storeCall.fn \in {"GetPoolsByTokens", "RedisStore.GetPoolsByTokens",
                                            "TwoLevelCache.GetPoolsByTokens"}) =>
    \A sa \in Spellings(storeCall.tokenA), sb \in Spellings(storeCall.tokenB) :
      IF storeCall.fn = "GetPoolsByTokens"
        THEN storeCall.pools = GetPoolsByTokens(TheStore, sa, sb)
        ELSE storeCall.pools \in RedisGetPoolsByTokens(redisCache, sa, sb)

\* the calculator's result is the one it gives for every other spelling of
\* the token arguments and of the addresses inside the pools
CalculatorCaseInvariant ==
  /\ ReturnedFrom("CalculateOutput") =>
       \A s \in Spellings(calc.tokenIn), p \in PoolSpellings(calc.pool) :
         CalculateOutput(p, calc.amountIn, s) = CalcResult(calc.amount, calc.err)
  /\ ReturnedFrom("CalculatePathOutput") =>
       \A s \in Spellings(calc.tokenIn), u \in Spellings(calc.tokenOut) :
         /\ CalculatePathOutput(calc.pools, calc.amountIn, s, u)
              = CalcResult(calc.amount, calc.err)
         /\ \A k \in 1..Len(calc.pools) : \A p \in PoolSpellings(calc.pools[k]) :
              CalculatePathOutput([calc.pools EXCEPT ![k] = p], calc.amountIn,
                                  calc.tokenIn, calc.tokenOut)
                = CalcResult(calc.amount, calc.err)

\* the quote's status and amount are among those of the same request in
\* every other spelling
QuoteCaseInvariant ==
  (qpc = "done" /\ g # 0 /\ ~cancelled) =>
    \A s \in Spellings(req.tokenIn), u \in Spellings(req.tokenOut) :
      Outcome(response.status, response.err, response.amountOut)
        \in AloneOutcomes(snaps[g], [req EXCEPT !.tokenIn = s, !.tokenOut = u])

\* C31: GetBestQuote, CalculateOutput, CalculatePathOutput and
\* GetPoolsByTokens on the in-memory, remote and two-tier stores give the same
\* result for inputs that differ in letter case only
C31_CaseInvariant ==
  /\ StoresCaseInvariant
  /\ CalculatorCaseInvariant
  /\ QuoteCaseInvariant

\* the in-memory store alone gives the same list for every spelling
MemoryStoreCaseInvariant ==
  (storeCall # NoCall /\ storeCall.fn = "GetPoolsByTokens") => StoresCaseInvariant

\* every TradePath the quote has produced so far
TradePathsProduced ==
  Range(resultsChan) \cup Range(response.paths)
    \cup (IF response.status = "ok" THEN {response.bestPath} ELSE {})

\* the pools of a path whose exchange name is one of the given ones, in any
\* letter case
PoolsOn(path, names) == { i \in 1..Len(path) : ToLower(path[i].exchange) \in names }

\* C32: a TradePath's gas_cost is 21,000 plus 100,000 per "uniswap v2" pool,
\* 120,000 per "sushiswap" pool and 110,000 per pool of any other exchange,
\* names compared case-insensitively, and its dexes are the pools' exchange
\* names in order
C32_GasCostAndDexes ==
  \A tp \in TradePathsProduced :
    /\ tp.gasCost = 21000
         + 100000 * Cardinality(PoolsOn(tp.pools, {"uniswap v2"}))
         + 120000 * Cardinality(PoolsOn(tp.pools, {"sushiswap"}))
         + 110000 * Cardinality((1..Len(tp.pools))
                                  \ PoolsOn(tp.pools, {"uniswap v2", "sushiswap"}))
    /\ Len(tp.dexes) = Len(tp.pools)
    /\ \A i \in 1..Len(tp.pools) : tp.dexes[i] = tp.pools[i].exchange

\* an answer whose paths cover the three rows of the table, one of them with
\* two pools of different exchanges
C32_Witness ==
  /\ qpc = "done"
  /\ response.status = "ok"
  /\ \E tp \in Range(response.paths) :
       /\ Len(tp.pools) = 2
       /\ tp.dexes[1] # tp.dexes[2]
       /\ tp.gasCost = 241000
  /\ \E tp \in Range(response.paths) : tp.dexes = <<"PancakeSwap">> /\ tp.gasCost = 131000

TokenReturned == storeCall # NoCall /\ storeCall.fn = "TwoLevelCache.GetToken"

\* C33: GetToken on the two-tier cache answers with the fallback token only
\* for an address no tier holds a token for; the token of the last successful
\* StoreToken is what GetToken returns for its address
C33_GetTokenReturnsStored ==
  (TokenReturned /\ storeCall.err = "none") =>
    IF storeCall.address \in DOMAIN redisCache.tokens
      THEN storeCall.token = UnmarshalToken(redisCache.tokens[storeCall.address])
      ELSE storeCall.token = FallbackToken(storeCall.address)

\* what holds: GetToken answers with the fallback token for every address
GetTokenAlwaysFallback ==
  TokenReturned => storeCall.token = FallbackToken(storeCall.address) /\ storeCall.err = "none"

\* best_known covers the queue: every queued state's output is at most the
\* best amount known for its last token
BestCoversQueue ==
  qpc = "search" =>
    \A s \in Range(pq) :
      /\ s.lastToken \in DOMAIN bestAmountPerToken
      /\ bestAmountPerToken[s.lastToken] >= s.amountOut

\* one iteration of the search loop
PopStep == qpc = "search" /\ qpc' = "search" /\ pq' # pq

\* the usable next hops of a popped state: pools towards neighbors the path
\* has not visited, with a positive output and no error
NextHops(cur) ==
  { c \in { [token |-> t, pool |-> p,
             amount |-> CalculateOutput(p, cur.amountOut, cur.lastToken).amount,
             err |-> CalculateOutput(p, cur.amountOut, cur.lastToken).err] :
            t \in { u \in InnerSet(snaps[g].adj, cur.lastToken) :
                      ~pathContainsToken(cur.path, u) },
            p \in PoolCatalog } :
      /\ c.pool \in Range(EdgeList(snaps[g].poolMap, cur.lastToken, c.token))
      /\ c.err = "none"
      /\ c.amount > 0 }

ExceedsKnown(best, c) == c.token \notin DOMAIN best \/ c.amount > best[c.token]

\* what one pop does to the queue, the best amounts and the kept paths
PopRule ==
  LET cur == HeapPopItem(pq)
      rest == HeapPopRest(pq)
      best == bestAmountPerToken
      less == cur.lastToken \in DOMAIN best /\ cur.amountOut < best[cur.lastToken]
      new == Range(pq') \ Range(rest)
      hops == NextHops(cur)
  IN  \* a popped state is the best known for its token or it is discarded
      /\ less <=> (cur.amountOut # best[cur.lastToken])
      /\ less => /\ pq' = rest
                 /\ UNCHANGED <<bestAmountPerToken, bestPaths>>
      /\ (~less /\ cur.lastToken = tokenOut) => bestPaths' = Append(bestPaths, cur.path)
      /\ (~less /\ cur.lastToken # tokenOut /\ ~HopLimitReached(cur.path, req.maxHops)) =>
           /\ \A n \in new :
                \E c \in hops :
                  /\ n = PathState(Append(cur.path, c.pool), c.amount, c.token)
                  /\ ExceedsKnown(best, c)
                  /\ bestAmountPerToken'[c.token] >= c.amount
           /\ \A c \in hops :
                (ExceedsKnown(best, c) /\ \A d \in hops : d.token = c.token => d.amount <= c.amount)
                  => /\ bestAmountPerToken'[c.token] = c.amount
                     /\ \E n \in new : n.lastToken = c.token /\ n.amountOut = c.amount
           /\ \A t \in DOMAIN bestAmountPerToken' :
                \/ t \in DOMAIN best /\ bestAmountPerToken'[t] = best[t]
                \/ \E c \in hops : c.token = t /\ ExceedsKnown(best, c)
                                   /\ bestAmountPerToken'[t] = c.amount

\* C34: best_known[t] is at least the output of every enqueued state with last
\* token t; a popped state is discarded exactly when its output is strictly
\* less than best_known[last_token]; a next state is enqueued exactly when its
\* output strictly exceeds best_known[next_token] or none is known, and
\* best_known[next_token] is then set to that output
C34_BestKnownPruning == []BestCoversQueue /\ [][PopStep => PopRule]_vars

\* a search that holds a state made by an expansion and later superseded,
\* next to a state that is the best known for its token
C34_Witness ==
  /\ qpc = "search"
  /\ \E s \in Range(pq) : s.amountOut < bestAmountPerToken[s.lastToken]
  /\ \E s \in Range(pq) : Len(s.path) >= 2 /\ s.amountOut = bestAmountPerToken[s.lastToken]
  /\ Len(bestPaths) >= 1

\* no send on resultsChan or errorChan blocks: both have room for one value
\* of every worker
SendsNeverBlock ==
  qpc = "evaluate" => Len(resultsChan) + Len(errorChan) <= Len(workers)

QuoteInFlight == qpc \notin {"idle", "done"}

\* C35: every GetBestQuote call eventually returns a response or an error,
\* for any number of candidates and any configured max_concurrent_paths >= 0,
\* and no worker ever blocks on sending its result or error
C35_QuoteReturns == []SendsNeverBlock /\ (QuoteInFlight ~> (qpc = "done"))

\* every worker waits for a slot of a semaphore of capacity zero
C35_Witness ==
  /\ qpc = "evaluate"
  /\ maxConcurrent = 0
  /\ Len(workers) >= 1
  /\ \A i \in 1..Len(workers) : workers[i] = "waiting"

\* on a router whose capacity is at least one, every call returns
QuoteReturnsOnPositiveWidth ==
  (QuoteInFlight /\ maxConcurrent >= 1) ~> (qpc = "done")

\* FindBestPaths keeps the popped path
KeepStep == qpc = "search" /\ qpc' = "search" /\ bestPaths' # bestPaths

\* the recomputation of the kept path gives the amount the search
\* accumulated for it
KeptAsAccumulated ==
  LET cur == HeapPopItem(pq)
      again == CalculatePathOutput(cur.path, req.amountIn, tokenIn, tokenOut)
  IN  /\ bestPaths' = Append(bestPaths, cur.path)
      /\ again.err = "none"
      /\ again.amount = cur.amountOut
      /\ again.amount > 0

\* every returned candidate recomputes to a positive output, and when all
\* workers are done each has delivered its TradePath
CandidatesBecomeTradePaths ==
  qpc \in {"evaluate", "done"} /\ found.err = "none" =>
    /\ \A i \in 1..Len(found.paths) :
          Recomputed(i).err = "none" /\ Recomputed(i).amount > 0
    /\ Len(errorChan) = 0
    /\ Len(resultsChan) = Cardinality(Finished)
    /\ (qpc = "done" /\ Len(found.paths) >= 1) =>
          /\ response.status = "ok"
          /\ Len(response.paths) = Len(found.paths)

\* C36: for every path FindBestPaths returns, CalculatePathOutput(path,
\* amount_in, token_in, token_out) succeeds and returns exactly the output
\* the search accumulated for that path, which is strictly positive; with
\* the pool records unchanged every candidate becomes a TradePath
C36_RecomputationAgrees ==
  []CandidatesBecomeTradePaths /\ [][KeepStep => KeptAsAccumulated]_vars

\* a quote succeeded with two candidates, one of them of more than one hop
C36_Witness ==
  /\ Succeeded
  /\ Len(found.paths) >= 2
  /\ Len(response.paths) = Len(found.paths)
  /\ \E i \in 1..Len(found.paths) : Len(found.paths[i]) >= 2

\* the TradePaths of the viable candidates of a list, in candidate order
TradePathsOf(paths, rq) ==
  LET out(i) == CalculatePathOutput(paths[i], rq.amountIn, ToLower(rq.tokenIn),
                                    ToLower(rq.tokenOut))
      viable == SelectSeq([i \in 1..Len(paths) |-> i],
                          LAMBDA i : out(i).err = "none" /\ ~NoOutput(out(i).amount))
  IN  [k \in 1..Len(viable) |-> TradePath(paths[viable[k]], out(viable[k]).amount)]

\* every successful response GetBestQuote can give on the snapshot: one per
\* order of the map ranges of the search and per order in which the workers
\* deliver their TradePaths
ResponsesOn(gd, rq) ==
  UNION { LET tps == TradePathsOf(paths, rq)
          IN  { QuoteResponse([k \in 1..Len(tps) |-> tps[order[k]]]) :
                  order \in Perms(1..Len(tps)) } :
          paths \in { f \in FoundAlone(gd, rq) : TradePathsOf(f, rq) # << >> } }

\* FindBestPaths returns the same list in every execution
SamePathsFound ==
  (qpc \in {"evaluate", "done"} /\ found.err = "none") =>
     \A paths \in FoundAlone(snaps[g], req) : paths = found.paths

\* amount_out is the same in every execution
SameAmountOut ==
  Succeeded => \A other \in ResponsesOn(snaps[g], req) : other.amountOut = response.amountOut

\* best_path and gas_estimate are the same in every execution
SameBestPath ==
  Succeeded =>
    \A other \in ResponsesOn(snaps[g], req) :
       /\ other.bestPath = response.bestPath
       /\ other.gasEstimate = response.gasEstimate

\* C37: for a fixed snapshot, slippage limit and request, the list of paths
\* FindBestPaths returns and amount_out, best_path and gas_estimate of
\* GetBestQuote are the same in every execution, whatever the order of the
\* map ranges, of equal-output queue entries and of the workers' finishing
C37_SameAnswerInEveryExecution == SamePathsFound /\ SameAmountOut /\ SameBestPath

\* no StorePool, backfill goroutine or warm-up of the cache is in flight
CacheQuiescent ==
  /\ \A c \in CacheClients : calls[c].op = "StorePool" => calls[c].pc = "return"
  /\ backfill = << >>
  /\ warming = << >>

\* every record of the local tier is the record the remote tier holds under
\* the same address
LocalEqualsRemote ==
  \A a \in DOMAIN localCache.pools :
     /\ a \in DOMAIN redisCache.keys
     /\ Unmarshal(redisCache.keys[a]) = localCache.pools[a]

\* C38: in executions where every remote write succeeds, whenever no
\* StorePool, backfill or cache warming is in flight, each pool record of the
\* local tier equals the record the remote tier holds for the same address
C38_TiersAgreeWhenQuiescent == CacheQuiescent => LocalEqualsRemote

\* a backfill goroutine never replaces a local record that agrees with the
\* remote tier
BackfillKeepsNewer ==
  [][ Len(backfill') < Len(backfill) =>
        \A a \in DOMAIN localCache.pools :
           (a \in DOMAIN redisCache.keys /\
            Unmarshal(redisCache.keys[a]) = localCache.pools[a])
             => localCache'.pools[a] = localCache.pools[a] ]_vars

\* snapshots are numbered in the order of the reads of the store they are
\* built from
LatestPublished == SetMax(published)

\* C39: the current snapshot never regresses: of two RefreshGraph calls that
\* both succeed, once both have published the current snapshot is the one
\* built from the later read of the store, also when an explicit
\* RefreshGraph overlaps the periodic one
C39_NoRegress == published # {} => graph = LatestPublished

\* a RefreshGraph never replaces the current snapshot by one built from an
\* earlier read
PublishesForward == [][graph' >= graph]_vars

\* the current snapshot holds the pools of the latest read that was published
CurrentHoldsLatestRead ==
  published # {} => snapSrc[graph] = snapSrc[LatestPublished]

\* pools held by the current snapshot
CurrentPoolsInSnapshot == IF graph = 0 THEN {} ELSE GraphPools(snaps[graph])

\* C40: if the store stays available and the background refresher keeps
\* ticking, every pool that is stored and remains in the store is eventually
\* contained in the current snapshot, without any explicit RefreshGraph call
C40_StoredEventuallyInSnapshot ==
  \A p \in PoolCatalog :
     (p \in StoredPools) ~> (p \in CurrentPoolsInSnapshot \/ p \notin StoredPools)

\* a pool stored after start-up is held by the current snapshot, which a
\* tick published
C40_Witness ==
  /\ nStore >= 1
  /\ graph > 1
  /\ rf["ticker"].pc = "idle"
  /\ StoredPools \ snapSrc[1] # {}
  /\ StoredPools \subseteq CurrentPoolsInSnapshot

============================================================================
